---- MODULE Spec2Model ----
(***************************************************************************)
(* ScopeCrawler: the member collectors (collectMembers, collectMembersWide) *)
(* and the logging instrumentation (addLoggingToFunctions) as a state       *)
(* machine over a JavaScript object graph.                                  *)
(*                                                                          *)
(* Strings are sequences of characters, so that prefix / suffix / substring *)
(* tests, slicing and regular-expression cursors are computed, not assumed. *)
(* Objects live in `heap`; a property is a record with its descriptor.      *)
(***************************************************************************)
EXTENDS Integers, Sequences, FiniteSets, TLC

VARIABLES
  heap,        \* object id -> [proto, callable, beh, keysThrow, ext, props]
  wrappers,    \* the wrapper functions installed so far (closures of wrapFunction)
  registry,    \* wrappedTargets of the latest addLoggingToFunctions run
  runs,        \* one record per finished addLoggingToFunctions run
  trace,       \* events in order: logger deliveries and wrapper exits
  acts,        \* one record per wrapper activation
  calls,       \* one record per top-level call made by the client
  promises,    \* thenables created by original functions and by then / catch
  microtasks,  \* the host's promise job queue
  opts,        \* options of the collector / instrumentation calls
  lastIndex,   \* regex object id -> its lastIndex cursor
  results,     \* one record per finished collector call
  packs        \* the matcher-pack table, its rule objects, the lists handed out

vars == <<heap, wrappers, registry, runs, trace, acts, calls, promises,
          microtasks, opts, lastIndex, results, packs>>

\* ------------------------------------------------------------------ bounds

MaxRules == 2
MaxCollectCalls == 2
MaxRuns == 2
MaxCalls == 2
MaxPackCalls == 2
MaxPackEdits == 2

\* ----------------------------------------------------------------- strings

StartsWith(k, p) == Len(p) <= Len(k) /\ SubSeq(k, 1, Len(p)) = p

EndsWith(k, p) == Len(p) <= Len(k) /\ SubSeq(k, Len(k) - Len(p) + 1, Len(k)) = p

MatchAt(k, p, i) == i + Len(p) <= Len(k) /\ SubSeq(k, i + 1, i + Len(p)) = p

Includes(k, p) == \E i \in 0..Len(k) : MatchAt(k, p, i)

Slice(k, n) == IF n >= Len(k) THEN <<>> ELSE SubSeq(k, n + 1, Len(k))

\* ------------------------------------------------------------------ values
\* One record shape for every JavaScript value: t is the type tag, s a string's
\* characters, o an object id, n a number or a table index.

Val(t, s, o, n) == [t |-> t, s |-> s, o |-> o, n |-> n]
Undef == Val("undefined", <<>>, "", 0)
Null == Val("null", <<>>, "", 0)
Str(s) == Val("string", s, "", 0)
Num(n) == Val("number", <<>>, "", n)
Bool(b) == Val("boolean", <<>>, "", IF b THEN 1 ELSE 0)
Ref(o) == Val("object", <<>>, o, 0)
WrapperVal(i) == Val("wrapper", <<>>, "", i)
PromiseVal(i) == Val("promise", <<>>, "", i)
ErrVal(name) == Val("error", <<name>>, "", 0)

Digit(n) == IF n = 0 THEN "0" ELSE IF n = 1 THEN "1" ELSE IF n = 2 THEN "2" ELSE "9"

\* -------------------------------------------------------------------- heap
\* An object: proto ("" is null), callable (typeof is 'function'), beh (what a
\* call of it does), keysThrow (Object.keys / getOwnPropertyNames fail on it, as
\* on a revoked or trapping proxy), ext (extensible), props (own properties in
\* enumeration order).  A property: a data property (acc = FALSE, val) or an
\* accessor (acc = TRUE; get is "none", "ret" (returns val) or "throw").

Obj(proto, callable, beh, props) ==
  [proto |-> proto, callable |-> callable, beh |-> beh, keysThrow |-> FALSE,
   ext |-> TRUE, props |-> props]

DataProp(key, v, w, e, c) ==
  [key |-> key, acc |-> FALSE, val |-> v, get |-> "none", hasSet |-> FALSE,
   writable |-> w, enumerable |-> e, configurable |-> c]

AccProp(key, v, get, hasSet, e, c) ==
  [key |-> key, acc |-> TRUE, val |-> v, get |-> get, hasSet |-> hasSet,
   writable |-> FALSE, enumerable |-> e, configurable |-> c]

PropIndex(props, key) ==
  IF \E i \in 1..Len(props) : props[i].key = key
  THEN CHOOSE i \in 1..Len(props) : props[i].key = key
  ELSE 0

\* typeof v
TypeOf(h, v) ==
  CASE v.t = "wrapper" -> "function"
    [] v.t = "object" -> IF h[v.o].callable THEN "function" ELSE "object"
    [] v.t \in {"null", "promise", "error"} -> "object"
    [] OTHER -> v.t

\* !!v
Truthy(v) ==
  CASE v.t \in {"undefined", "null"} -> FALSE
    [] v.t = "string" -> v.s # <<>>
    [] v.t \in {"number", "boolean"} -> v.n # 0
    [] OTHER -> TRUE

\* The holder of `key` on the prototype chain of object o ("" when there is none).
RECURSIVE Holder(_, _, _)
Holder(h, o, key) ==
  IF o = "" THEN ""
  ELSE IF PropIndex(h[o].props, key) # 0 THEN o
  ELSE Holder(h, h[o].proto, key)

\* o[key]: [ok |-> FALSE] when a getter throws.
Get(h, o, key) ==
  LET holder == Holder(h, o, key) IN
  IF holder = "" THEN [ok |-> TRUE, v |-> Undef]
  ELSE LET p == h[holder].props[PropIndex(h[holder].props, key)] IN
       IF ~p.acc THEN [ok |-> TRUE, v |-> p.val]
       ELSE IF p.get = "throw" THEN [ok |-> FALSE, v |-> ErrVal("getter")]
       ELSE IF p.get = "ret" THEN [ok |-> TRUE, v |-> p.val]
       ELSE [ok |-> TRUE, v |-> Undef]

\* key in o
HasProperty(h, o, key) == Holder(h, o, key) # ""

StoreAt(h, o, i, v) == [h EXCEPT ![o].props[i].val = v]

\* A variant of the assignment that ignores the writable flag and the missing
\* setter: what sloppy-mode replacement by defineProperty would do.
SetPropForced(h, o, key, v) ==
  LET i == PropIndex(h[o].props, key) IN
  IF i = 0
  THEN [ok |-> TRUE,
        h |-> [h EXCEPT ![o].props = Append(@, DataProp(key, v, TRUE, TRUE, TRUE))]]
  ELSE [ok |-> TRUE,
        h |-> [h EXCEPT ![o].props[i] = DataProp(key, v, TRUE, TRUE, TRUE)]]

\* o[key] = v in strict-mode code: [ok |-> FALSE] when the assignment throws a
\* TypeError (read-only data property, accessor without a setter, own or
\* inherited, or a new key on a non-extensible object).
SetProp(h, o, key, v) ==
  LET holder == Holder(h, o, key) IN
  IF holder = ""
  THEN IF h[o].ext
       THEN [ok |-> TRUE,
             h |-> [h EXCEPT ![o].props = Append(@, DataProp(key, v, TRUE, TRUE, TRUE))]]
       ELSE [ok |-> FALSE, h |-> h]
  ELSE LET i == PropIndex(h[holder].props, key)
           p == h[holder].props[i] IN
       IF p.acc
       THEN IF p.hasSet THEN [ok |-> TRUE, h |-> StoreAt(h, holder, i, v)]
            ELSE [ok |-> FALSE, h |-> h]
       ELSE IF ~p.writable THEN [ok |-> FALSE, h |-> h]
       ELSE IF holder = o THEN [ok |-> TRUE, h |-> StoreAt(h, o, i, v)]
       ELSE IF h[o].ext
       THEN [ok |-> TRUE,
             h |-> [h EXCEPT ![o].props = Append(@, DataProp(key, v, TRUE, TRUE, TRUE))]]
       ELSE [ok |-> FALSE, h |-> h]

RECURSIVE KeysOf(_, _)
KeysOf(props, enumerableOnly) ==
  IF props = <<>> THEN <<>>
  ELSE LET p == Head(props) IN
       (IF enumerableOnly /\ ~p.enumerable THEN <<>> ELSE <<p.key>>)
         \o KeysOf(Tail(props), enumerableOnly)

\* Object.keys(o) and Object.getOwnPropertyNames(o)
ObjectKeys(h, o) ==
  IF h[o].keysThrow THEN [ok |-> FALSE, keys |-> <<>>]
  ELSE [ok |-> TRUE, keys |-> KeysOf(h[o].props, TRUE)]

OwnPropertyNames(h, o) ==
  IF h[o].keysThrow THEN [ok |-> FALSE, keys |-> <<>>]
  ELSE [ok |-> TRUE, keys |-> KeysOf(h[o].props, FALSE)]

\* Whether the prototype chain of o reaches Object.prototype (and so toString).
RECURSIVE ReachesObjectPrototype(_, _)
ReachesObjectPrototype(h, o) ==
  IF o = "" THEN FALSE
  ELSE IF o = "ObjectPrototype" THEN TRUE
  ELSE ReachesObjectPrototype(h, h[o].proto)

\* String(v): ok is FALSE when the coercion throws (an object with no toString).
ToStr(h, v) ==
  CASE v.t = "string" -> [ok |-> TRUE, s |-> v.s]
    [] v.t = "number" -> [ok |-> TRUE, s |-> <<Digit(v.n)>>]
    [] v.t = "boolean" -> [ok |-> TRUE, s |-> IF v.n = 1 THEN <<"t", "r", "u", "e">>
                                              ELSE <<"f", "a", "l", "s", "e">>]
    [] v.t = "object" ->
         IF ReachesObjectPrototype(h, v.o)
         THEN [ok |-> TRUE, s |-> IF h[v.o].callable THEN <<"function(){}">>
                                  ELSE <<"[object Object]">>]
         ELSE [ok |-> FALSE, s |-> <<>>]
    [] v.t = "wrapper" -> [ok |-> TRUE, s |-> <<"function(){}">>]
    [] v.t = "promise" -> [ok |-> TRUE, s |-> <<"[object Promise]">>]
    [] OTHER -> [ok |-> TRUE, s |-> <<v.t>>]


\* ------------------------------------------------- instrumentation: install
\* cfg is one addLoggingToFunctions call: obj, wrapTarget, awaitPromises, label,
\* logger, run.  st threads what a collector pass reads and writes: h (heap),
\* ws (wrappers), reg (wrappedTargets as a set of <<target, key>>), res (the
\* result Set in insertion order), li (lastIndex of each regex object), threw,
\* notes (onMatch deliveries) and evals (predicate invocations).

\* resolveTarget(sourceObj): the object id to patch ("" when there is none).
ResolveTarget(cfg, h, sourceObj) ==
  IF cfg.wrapTarget = "owner" THEN sourceObj
  ELSE IF cfg.wrapTarget = "prototype"
  THEN LET pr == Get(h, sourceObj, <<"prototype">>) IN
       IF h[sourceObj].callable /\ pr.ok /\ Truthy(pr.v)
       THEN (IF pr.v.t = "object" THEN pr.v.o ELSE "")
       ELSE IF h[sourceObj].proto # "" THEN h[sourceObj].proto
       ELSE cfg.obj
  ELSE cfg.obj

\* markWrapped(target, key): TRUE when the pair was recorded before.
MarkWrappedHit(reg, target, key) == <<target, key>> \in reg

MarkWrappedAdd(reg, target, key) == reg \cup {<<target, key>>}

\* The getter-only test on the own descriptor of target[key].
GetterOnly(h, target, key) ==
  LET i == PropIndex(h[target].props, key) IN
  i # 0 /\ h[target].props[i].acc /\ h[target].props[i].get # "none"
        /\ ~h[target].props[i].hasSet

\* source (the closure member the key was found on) is kept for the record.
NewWrapper(cfg, key, target, orig, sourceObj) ==
  [orig |-> orig, key |-> key, target |-> target, source |-> sourceObj,
   label |-> cfg.label,
   awaitPromises |-> cfg.awaitPromises, logger |-> cfg.logger, run |-> cfg.run,
   variant |-> "observer"]

\* wrapFunction(key, value, sourceObj).  An exception leaving it (a throwing
\* getter read at `originalFn = target[key]`) is swallowed by the caller's
\* try / catch around onMatch, so the pass goes on with the state so far.
WrapFunction(cfg, st, key, value, sourceObj) ==
  IF TypeOf(st.h, value) # "function" THEN st
  ELSE LET target == ResolveTarget(cfg, st.h, sourceObj) IN
  IF target = "" THEN st
  ELSE IF MarkWrappedHit(st.reg, target, key) THEN st
  ELSE LET st1 == [st EXCEPT !.reg = MarkWrappedAdd(st.reg, target, key)] IN
  IF GetterOnly(st1.h, target, key) THEN st1
  ELSE LET orig == Get(st1.h, target, key) IN
  IF ~orig.ok THEN st1
  ELSE LET put == SetProp(st1.h, target, key, WrapperVal(Len(st1.ws) + 1)) IN
  IF ~put.ok THEN st1
  ELSE [st1 EXCEPT !.h = put.h,
                   !.ws = Append(st1.ws, NewWrapper(cfg, key, target, orig.v,
                                                    sourceObj))]


\* ---------------------------------------------------------- matcher engine
\* A matchers entry: shape "rule" (an object) or "null" (null / undefined, on
\* which `matcher.type` throws); type; the pattern `value` as pt ("string",
\* "regex", "function" or "number"), s (the string, or the regex's literal),
\* flags ("", "g" or "y") and re (the regex object's id), pred (what a predicate
\* does); tf (what matcher.transform does, "none" when it is not a function).

Rule(type, pt, s, flags, re, pred, tf) ==
  [shape |-> "rule", type |-> type, pt |-> pt, s |-> s, flags |-> flags,
   re |-> re, pred |-> pred, tf |-> tf]

NullRule == [shape |-> "null", type |-> "", pt |-> "number", s |-> <<>>,
             flags |-> "", re |-> "", pred |-> "", tf |-> "none"]

\* The least start i >= from of an occurrence of p in k (-1 when there is none).
FirstMatchFrom(k, p, from) ==
  IF \E i \in from..Len(k) : MatchAt(k, p, i)
  THEN CHOOSE i \in from..Len(k) :
         MatchAt(k, p, i) /\ \A j \in from..(i - 1) : ~MatchAt(k, p, j)
  ELSE -1

\* RegExp.prototype.test for a literal pattern, from cursor `from`:
\* without g / y the cursor is neither read nor written.
RegexTest(m, key, from) ==
  IF m.flags = ""
  THEN [matched |-> Includes(key, m.s), cursor |-> from]
  ELSE IF from > Len(key) THEN [matched |-> FALSE, cursor |-> 0]
  ELSE IF m.flags = "y"
  THEN IF MatchAt(key, m.s, from)
       THEN [matched |-> TRUE, cursor |-> from + Len(m.s)]
       ELSE [matched |-> FALSE, cursor |-> 0]
  ELSE LET i == FirstMatchFrom(key, m.s, from) IN
       IF i >= 0 THEN [matched |-> TRUE, cursor |-> i + Len(m.s)]
       ELSE [matched |-> FALSE, cursor |-> 0]

\* What a predicate returns for (key, value, sourceObj): ok is FALSE when it throws.
PredicateCall(h, pred, key, value, sourceObj) ==
  CASE pred = "true" -> [ok |-> TRUE, v |-> Bool(TRUE)]
    [] pred = "false" -> [ok |-> TRUE, v |-> Bool(FALSE)]
    [] pred = "one" -> [ok |-> TRUE, v |-> Num(1)]
    [] pred = "isFn" -> [ok |-> TRUE, v |-> Bool(TypeOf(h, value) = "function")]
    [] pred = "throw" -> [ok |-> FALSE, v |-> ErrVal("predicate")]
    [] OTHER -> [ok |-> TRUE, v |-> Undef]

\* A variant in which a transform that fails leaves the key as its output.
TransformCallKeepsKey(m, key, value) ==
  CASE m.tf = "slice" -> [ok |-> TRUE,
                          v |-> Str(Slice(key, IF m.pt = "string" THEN Len(m.s) ELSE 2))]
    [] m.tf = "empty" -> [ok |-> TRUE, v |-> Str(<<>>)]
    [] m.tf = "null" -> [ok |-> TRUE, v |-> Null]
    [] m.tf = "one" -> [ok |-> TRUE, v |-> Num(1)]
    [] m.tf = "value" -> [ok |-> TRUE, v |-> value]
    [] m.tf = "throw" -> [ok |-> TRUE, v |-> Str(key)]
    [] OTHER -> [ok |-> TRUE, v |-> Undef]

\* What matcher.transform(key, value, mVal) returns: ok is FALSE when it throws.
TransformCall(m, key, value) ==
  CASE m.tf = "slice" -> [ok |-> TRUE,
                          v |-> Str(Slice(key, IF m.pt = "string" THEN Len(m.s) ELSE 2))]
    [] m.tf = "empty" -> [ok |-> TRUE, v |-> Str(<<>>)]
    [] m.tf = "null" -> [ok |-> TRUE, v |-> Null]
    [] m.tf = "one" -> [ok |-> TRUE, v |-> Num(1)]
    [] m.tf = "value" -> [ok |-> TRUE, v |-> value]
    [] m.tf = "throw" -> [ok |-> FALSE, v |-> ErrVal("transform")]
    [] OTHER -> [ok |-> TRUE, v |-> Undef]

\* A variant that appends without looking: a list in place of the Set.
SetAddAlways(res, s) == Append(res, s)

\* resultSet.add(s): a Set keeps the first insertion only.
SetAdd(res, s) ==
  IF \E i \in 1..Len(res) : res[i] = s THEN res ELSE Append(res, s)

\* sourceObj is the scanned object as a value (an object or a wrapper function).
\* The switch on matcher.type: whether the rule matches, with the regex cursors
\* and predicate invocations it leaves behind.
MatchRule(st, m, j, key, value, sourceObj) ==
  CASE m.type = "prefix" ->
         [matched |-> m.pt = "string" /\ StartsWith(key, m.s), st |-> st]
    [] m.type = "suffix" ->
         [matched |-> m.pt = "string" /\ EndsWith(key, m.s), st |-> st]
    [] m.type = "includes" ->
         [matched |-> m.pt = "string" /\ Includes(key, m.s), st |-> st]
    [] m.type = "regex" ->
         IF m.pt = "regex"
         THEN LET r == RegexTest(m, key, 0) IN
              [matched |-> r.matched, st |-> [st EXCEPT !.li[m.re] = r.cursor]]
         ELSE [matched |-> FALSE, st |-> st]
    [] m.type = "custom" ->
         IF m.pt = "function"
         THEN LET r == PredicateCall(st.h, m.pred, key, value, sourceObj) IN
              [matched |-> r.ok /\ Truthy(r.v),
               st |-> [st EXCEPT !.evals = Append(@, [source |-> sourceObj, key |-> key,
                                                     rule |-> j])]]
         ELSE [matched |-> FALSE, st |-> st]
    [] OTHER -> [matched |-> FALSE, st |-> st]

\* A variant that tells the observer of the matches whose output was kept only.
OnMatchKeptOnly(cfg, st, j, key, value, sourceObj, out) ==
  IF cfg.onMatch = "none" \/ out.t \in {"undefined", "null"} \/ out = Str(<<>>)
  THEN st
  ELSE LET st1 == [st EXCEPT !.notes = Append(@,
                     [key |-> key, value |-> value, source |-> sourceObj,
                      rule |-> j, out |-> out, res |-> st.res])] IN
       IF cfg.onMatch = "wrap" THEN WrapFunction(cfg, st1, key, value, sourceObj.o)
       ELSE st1

\* The onMatch callback of the pass: "none", "record" (an observer that keeps
\* what it is given), "throw" (an observer that fails) or "wrap" (the
\* instrumentation's wrapFunction).  A note keeps what the callback was given
\* and the result set as it stood at the call.
OnMatch(cfg, st, j, key, value, sourceObj, out) ==
  IF cfg.onMatch = "none" THEN st
  ELSE LET st1 == [st EXCEPT !.notes = Append(@,
                     [key |-> key, value |-> value, source |-> sourceObj,
                      rule |-> j, out |-> out, res |-> st.res])] IN
       IF cfg.onMatch = "wrap" THEN WrapFunction(cfg, st1, key, value, sourceObj.o)
       ELSE st1

\* A variant of the output step that keeps the empty string.
EmitMatchKeepEmpty(cfg, st, m, j, key, value, sourceObj) ==
  LET t == IF m.tf = "none" THEN [ok |-> TRUE, v |-> Str(key)]
           ELSE TransformCall(m, key, value)
      out == IF t.ok THEN t.v ELSE Undef IN
  IF out.t \in {"undefined", "null"}
  THEN OnMatch(cfg, st, j, key, value, sourceObj, out)
  ELSE LET c == ToStr(st.h, out) IN
       IF ~c.ok THEN [st EXCEPT !.threw = TRUE]
       ELSE OnMatch(cfg, [st EXCEPT !.res = SetAdd(@, c.s)], j, key, value,
                    sourceObj, out)

\* The output of a matched rule, merged into the result, then onMatch.
EmitMatch(cfg, st, m, j, key, value, sourceObj) ==
  LET t == IF m.tf = "none" THEN [ok |-> TRUE, v |-> Str(key)]
           ELSE TransformCall(m, key, value)
      out == IF t.ok THEN t.v ELSE Undef IN
  IF out.t \in {"undefined", "null"} \/ out = Str(<<>>)
  THEN OnMatch(cfg, st, j, key, value, sourceObj, out)
  ELSE LET c == ToStr(st.h, out) IN
       IF ~c.ok THEN [st EXCEPT !.threw = TRUE]
       ELSE OnMatch(cfg, [st EXCEPT !.res = SetAdd(@, c.s)], j, key, value,
                    sourceObj, out)

\* The wrapping part of clone.transform of the transform-based
\* addLoggingToFunctions (cfg.onMatch = "transform"): wrappedKeys is kept in
\* reg as pairs <<obj, key>>; the wrapper captures the matched value; a failed
\* assignment is swallowed and leaves the key out of wrappedKeys.  The rest of
\* clone.transform (the rule's own transform, or the key) is the output step.
LoggingTransform(cfg, st, key, value, sourceObj) ==
  IF cfg.onMatch # "transform" THEN st
  ELSE IF <<cfg.obj, key>> \in st.reg \/ TypeOf(st.h, value) # "function" THEN st
  ELSE LET put == SetProp(st.h, cfg.obj, key, WrapperVal(Len(st.ws) + 1)) IN
       IF ~put.ok THEN st
       ELSE [st EXCEPT !.h = put.h,
                       !.ws = Append(st.ws,
                                [NewWrapper(cfg, key, cfg.obj, value,
                                            IF sourceObj.t = "object" THEN sourceObj.o
                                            ELSE "")
                                   EXCEPT !.variant = "transform"]),
                       !.reg = st.reg \cup {<<cfg.obj, key>>}]

\* One iteration of the loop of applyMatchers, for matchers[j].
ApplyMatcher(cfg, st, ms, j, key, value, sourceObj) ==
  IF ms[j].shape = "null" THEN [st EXCEPT !.threw = TRUE]
  ELSE LET r == MatchRule(st, ms[j], j, key, value, sourceObj) IN
       IF ~r.matched THEN r.st
       ELSE EmitMatch(cfg, LoggingTransform(cfg, r.st, key, value, sourceObj),
                      ms[j], j, key, value, sourceObj)

\* applyMatchers(matchers, key, value, sourceObj, resultSet, onMatch), from j on.
RECURSIVE ApplyMatchers(_, _, _, _, _, _, _)
ApplyMatchers(cfg, st, ms, j, key, value, sourceObj) ==
  IF st.threw \/ j > Len(ms) THEN st
  ELSE ApplyMatchers(cfg, ApplyMatcher(cfg, st, ms, j, key, value, sourceObj),
                     ms, j + 1, key, value, sourceObj)


\* -------------------------------------------------------------- collectors
\* A seed option (defaults, extra): arr says whether an array was given; a single
\* value is vals[1].

Seed(arr, vals) == [arr |-> arr, vals |-> vals]

RECURSIVE SeedValues(_, _, _)
SeedValues(st, vals, i) ==
  IF st.threw \/ i > Len(vals) THEN st
  ELSE IF vals[i].t \in {"undefined", "null"} THEN SeedValues(st, vals, i + 1)
  ELSE LET c == ToStr(st.h, vals[i]) IN
       IF ~c.ok THEN [st EXCEPT !.threw = TRUE]
       ELSE SeedValues([st EXCEPT !.res = SetAdd(@, c.s)], vals, i + 1)

\* seedSet(set, values)
SeedSet(st, seed) ==
  IF ~seed.arr /\ ~Truthy(seed.vals[1]) THEN st
  ELSE SeedValues(st, seed.vals, 1)

NewPass(h, ws, li) ==
  [h |-> h, ws |-> ws, reg |-> {}, res |-> <<>>, li |-> li, threw |-> FALSE,
   notes |-> <<>>, evals |-> <<>>, scanned |-> <<>>]

\* The ambient bindings of a host: the object each of globalThis, window and
\* global is bound to, "" for a binding that is not defined.
Host(gt, win, glob) == [globalThis |-> gt, window |-> win, global |-> glob]

\* getDefaultSource(): the first defined of globalThis, window, global, else {}.
GetDefaultSource(host) ==
  IF host.globalThis # "" THEN Ref(host.globalThis)
  ELSE IF host.window # "" THEN Ref(host.window)
  ELSE IF host.global # "" THEN Ref(host.global)
  ELSE Ref("empty")

\* The index names of a string of n characters.
IndexKeys(n) == [i \in 1..n |-> <<Digit(i - 1)>>]

\* v[key] for a value v: an object of the heap, a string (which owns its
\* index names and length, and inherits from String.prototype), or a wrapper
\* function (which owns length, name and prototype, and inherits from
\* Function.prototype).
GetV(h, v, key) ==
  CASE v.t = "object" -> Get(h, v.o, key)
    [] v.t = "string" ->
         IF key = <<"length">> THEN [ok |-> TRUE, v |-> Num(Len(v.s))]
         ELSE IF \E i \in 1..Len(v.s) : key = <<Digit(i - 1)>>
         THEN [ok |-> TRUE,
               v |-> Str(<<v.s[CHOOSE i \in 1..Len(v.s) : key = <<Digit(i - 1)>>]>>)]
         ELSE Get(h, "StringPrototype", key)
    [] v.t = "wrapper" ->
         IF key = <<"length">> THEN [ok |-> TRUE, v |-> Num(0)]
         ELSE IF key = <<"name">> THEN [ok |-> TRUE, v |-> Str(<<>>)]
         ELSE IF key = <<"prototype">> THEN [ok |-> TRUE, v |-> Val("plain", <<>>, "", v.n)]
         ELSE Get(h, "FunctionPrototype", key)
    [] v.t \in {"undefined", "null"} -> [ok |-> FALSE, v |-> ErrVal("TypeError")]
    [] OTHER -> [ok |-> TRUE, v |-> Undef]

\* Object.keys(v) for a value v: a primitive is boxed, and only a string has
\* enumerable own names then.
KeysV(h, v) ==
  IF v.t = "object" THEN ObjectKeys(h, v.o)
  ELSE IF v.t = "string" THEN [ok |-> TRUE, keys |-> IndexKeys(Len(v.s))]
  ELSE [ok |-> TRUE, keys |-> <<>>]

\* The key loop of collectMembers over Object.keys(source), from i on.
RECURSIVE CollectKeys(_, _, _, _, _, _)
CollectKeys(cfg, st, ms, keys, i, source) ==
  IF st.threw \/ i > Len(keys) THEN st
  ELSE LET g == GetV(st.h, source, keys[i]) IN
       IF ~g.ok THEN CollectKeys(cfg, st, ms, keys, i + 1, source)
       ELSE CollectKeys(cfg, ApplyMatchers(cfg, st, ms, 1, keys[i], g.v, source),
                        ms, keys, i + 1, source)

\* collectMembers({source, defaults, extra, matchers, onMatch})
CollectMembers(cfg, st0, o) ==
  LET source == IF o.source = Undef THEN GetDefaultSource(cfg.host) ELSE o.source
      st == SeedSet(SeedSet(st0, o.defaults), o.extra) IN
  IF st.threw \/ ~Truthy(source) THEN st
  ELSE LET k == KeysV(st.h, source) IN
       IF ~k.ok THEN st
       ELSE CollectKeys(cfg, [st EXCEPT !.scanned = <<source>>], o.matchers, k.keys,
                        1, source)


\* ------------------------------------------- the collector of src/crawler.js
\* The first published collectMembers: its own inlined matcher loop, no onMatch.

\* The switch on matcher.type of crawler.js: the regex is tested where its
\* cursor stands.
LegacyMatchRule(st, m, j, key, value, sourceObj) ==
  CASE m.type = "prefix" ->
         [matched |-> m.pt = "string" /\ StartsWith(key, m.s), st |-> st]
    [] m.type = "suffix" ->
         [matched |-> m.pt = "string" /\ EndsWith(key, m.s), st |-> st]
    [] m.type = "includes" ->
         [matched |-> m.pt = "string" /\ Includes(key, m.s), st |-> st]
    [] m.type = "regex" ->
         IF m.pt = "regex"
         THEN LET r == RegexTest(m, key, st.li[m.re]) IN
              [matched |-> r.matched, st |-> [st EXCEPT !.li[m.re] = r.cursor]]
         ELSE [matched |-> FALSE, st |-> st]
    [] m.type = "custom" ->
         IF m.pt = "function"
         THEN LET r == PredicateCall(st.h, m.pred, key, value, sourceObj) IN
              [matched |-> r.ok /\ Truthy(r.v),
               st |-> [st EXCEPT !.evals = Append(@, [source |-> sourceObj, key |-> key,
                                                     rule |-> j])]]
         ELSE [matched |-> FALSE, st |-> st]
    [] OTHER -> [matched |-> FALSE, st |-> st]

LegacyEmitMatch(st, m, key, value) ==
  LET t == IF m.tf = "none" THEN [ok |-> TRUE, v |-> Str(key)]
           ELSE TransformCall(m, key, value)
      out == IF t.ok THEN t.v ELSE Undef IN
  IF out.t \in {"undefined", "null"} \/ out = Str(<<>>) THEN st
  ELSE LET c == ToStr(st.h, out) IN
       IF ~c.ok THEN [st EXCEPT !.threw = TRUE]
       ELSE [st EXCEPT !.res = SetAdd(@, c.s)]

RECURSIVE LegacyMatchers(_, _, _, _, _, _)
LegacyMatchers(st, ms, j, key, value, sourceObj) ==
  IF st.threw \/ j > Len(ms) THEN st
  ELSE IF ms[j].shape = "null" THEN [st EXCEPT !.threw = TRUE]
  ELSE LET r == LegacyMatchRule(st, ms[j], j, key, value, sourceObj) IN
       LegacyMatchers(IF r.matched THEN LegacyEmitMatch(r.st, ms[j], key, value)
                      ELSE r.st,
                      ms, j + 1, key, value, sourceObj)

\* addAll(values) of crawler.js
LegacyAddAll(st, seed) ==
  IF ~seed.arr /\ ~Truthy(seed.vals[1]) THEN st
  ELSE SeedValues(st, seed.vals, 1)

RECURSIVE LegacyKeys(_, _, _, _, _)
LegacyKeys(st, ms, keys, i, source) ==
  IF st.threw \/ i > Len(keys) THEN st
  ELSE LET g == Get(st.h, source.o, keys[i]) IN
       IF ~g.ok THEN LegacyKeys(st, ms, keys, i + 1, source)
       ELSE LegacyKeys(LegacyMatchers(st, ms, 1, keys[i], g.v, source),
                       ms, keys, i + 1, source)

\* getDefaultSource() of crawler.js: window is probed first.
LegacyGetDefaultSource(host) ==
  IF host.window # "" THEN Ref(host.window)
  ELSE IF host.globalThis # "" THEN Ref(host.globalThis)
  ELSE IF host.global # "" THEN Ref(host.global)
  ELSE Ref("empty")

\* collectMembers({source, defaults, extra, matchers}) of crawler.js
LegacyCollectMembers(st0, o) ==
  LET source == IF o.source = Undef THEN LegacyGetDefaultSource(o.host) ELSE o.source
      st == LegacyAddAll(LegacyAddAll(st0, o.defaults), o.extra) IN
  IF st.threw \/ ~Truthy(source) THEN st
  ELSE LET k == ObjectKeys(st.h, source.o) IN
       IF ~k.ok THEN st
       ELSE LegacyKeys([st EXCEPT !.scanned = <<source>>], o.matchers, k.keys, 1,
                       source)


\* ---------------------------------------------------------- wide collector
HasPropertyV(h, v, key) ==
  CASE v.t = "object" -> HasProperty(h, v.o, key)
    [] v.t = "wrapper" -> key \in {<<"length">>, <<"name">>, <<"prototype">>}
                          \/ HasProperty(h, "FunctionPrototype", key)
    [] OTHER -> FALSE

\* Object.getPrototypeOf(v) as a value
PrototypeOfV(h, v) ==
  CASE v.t = "object" -> IF h[v.o].proto = "" THEN Null ELSE Ref(h[v.o].proto)
    [] v.t = "string" -> Ref("StringPrototype")
    [] v.t = "wrapper" -> Ref("FunctionPrototype")
    [] OTHER -> Null

\* A variant that adds without asking whether the Set has the object.
AddSourceAgain(h, sources, v) ==
  IF ~Truthy(v) THEN sources
  ELSE IF TypeOf(h, v) \notin {"object", "function"} THEN sources
  ELSE Append(sources, v)

\* addSource(obj)
AddSource(h, sources, v) ==
  IF ~Truthy(v) THEN sources
  ELSE IF TypeOf(h, v) \notin {"object", "function"} THEN sources
  ELSE IF \E i \in 1..Len(sources) : sources[i] = v THEN sources
  ELSE Append(sources, v)

\* The expandChildren loop, from i on.
RECURSIVE AddChildren(_, _, _, _, _)
AddChildren(h, sources, root, names, i) ==
  IF i > Len(names) THEN sources
  ELSE LET g == GetV(h, root, names[i]) IN
       AddChildren(h,
                   IF HasPropertyV(h, root, names[i]) /\ g.ok
                   THEN AddSource(h, sources, g.v) ELSE sources,
                   root, names, i + 1)

\* `if (root && root[key]) addSource(root[key])` inside try / catch
AddMember(h, sources, root, key) ==
  LET g == GetV(h, root, key) IN
  IF g.ok /\ Truthy(g.v) THEN AddSource(h, sources, g.v) ELSE sources

\* The prototype-chain loop, from proto on.
RECURSIVE AddAncestors(_, _, _)
AddAncestors(h, sources, proto) ==
  IF ~Truthy(proto) \/ proto = Ref("ObjectPrototype") \/ proto = Ref("FunctionPrototype")
  THEN sources
  ELSE AddAncestors(h, AddSource(h, sources, proto), PrototypeOfV(h, proto))

\* v.name for the member `key` of root, pushed when truthy (else no candidate).
MemberName(h, root, key) ==
  LET m == GetV(h, root, key) IN
  IF ~m.ok \/ ~Truthy(m.v) THEN <<>>
  ELSE LET n == GetV(h, m.v, <<"name">>) IN
       IF n.ok /\ Truthy(n.v) THEN <<n.v>> ELSE <<>>

\* nameCandidates
NameCandidates(h, root) ==
  LET own == GetV(h, root, <<"name">>) IN
  (IF TypeOf(h, root) = "function" /\ own.ok /\ Truthy(own.v) THEN <<own.v>> ELSE <<>>)
    \o MemberName(h, root, <<"prototype">>)
    \o MemberName(h, root, <<"constructor">>)

\* The object the alias lookup takes for the global one: the first defined of
\* globalThis, window, global, else null.
AliasGlobal(host) ==
  IF host.globalThis # "" THEN Ref(host.globalThis)
  ELSE IF host.window # "" THEN Ref(host.window)
  ELSE IF host.global # "" THEN Ref(host.global)
  ELSE Null

\* The global-alias loop over nameCandidates, from i on; g is the global object.
RECURSIVE AddAliases(_, _, _, _, _)
AddAliases(h, sources, g, names, i) ==
  IF i > Len(names) THEN sources
  ELSE LET key == ToStr(h, names[i])
           v == Get(h, g, key.s) IN
       AddAliases(h,
                  IF key.ok /\ HasProperty(h, g, key.s) /\ v.ok
                  THEN AddSource(h, sources, v.v) ELSE sources,
                  g, names, i + 1)

\* The closure of collectMembersWide: the sources in insertion order.
SourceClosure(h, host, root, expandChildren) ==
  LET s1 == AddSource(h, <<>>, root)
      s2 == AddChildren(h, s1, root, expandChildren, 1)
      s3 == AddMember(h, s2, root, <<"constructor">>)
      s4 == AddMember(h, s3, root, <<"prototype">>)
      s5 == AddAncestors(h, s4, PrototypeOfV(h, root))
      g == AliasGlobal(host) IN
  IF g = Null THEN s5 ELSE AddAliases(h, s5, g.o, NameCandidates(h, root), 1)

\* Object.keys(src) and Object.getOwnPropertyNames(src) of a source value, each
\* [] when it fails.
SourceKeys(h, src) ==
  IF src.t = "object" THEN ObjectKeys(h, src.o).keys ELSE <<>>

SourceNames(h, src) ==
  IF src.t = "object" THEN OwnPropertyNames(h, src.o).keys
  ELSE <<<<"length">>, <<"name">>, <<"prototype">>>>

\* A variant of the loop that does not look into the local Set.
RECURSIVE WalkKeysUnseen(_, _, _, _, _, _, _)
WalkKeysUnseen(cfg, st, ms, allKeys, i, seen, src) ==
  IF st.threw \/ i > Len(allKeys) THEN st
  ELSE LET g == GetV(st.h, src, allKeys[i]) IN
       WalkKeysUnseen(cfg,
                      IF g.ok THEN ApplyMatchers(cfg, st, ms, 1, allKeys[i], g.v, src)
                      ELSE st,
                      ms, allKeys, i + 1, seen, src)

\* The loop over allKeys of one source, from i on; seen is the local Set.
RECURSIVE WalkKeys(_, _, _, _, _, _, _)
WalkKeys(cfg, st, ms, allKeys, i, seen, src) ==
  IF st.threw \/ i > Len(allKeys) THEN st
  ELSE IF allKeys[i] \in seen THEN WalkKeys(cfg, st, ms, allKeys, i + 1, seen, src)
  ELSE LET g == GetV(st.h, src, allKeys[i]) IN
       WalkKeys(cfg,
                IF g.ok THEN ApplyMatchers(cfg, st, ms, 1, allKeys[i], g.v, src) ELSE st,
                ms, allKeys, i + 1, seen \cup {allKeys[i]}, src)

\* sources.forEach(...), from i on.
RECURSIVE WalkSources(_, _, _, _, _)
WalkSources(cfg, st, ms, sources, i) ==
  IF st.threw \/ i > Len(sources) THEN st
  ELSE WalkSources(cfg,
                   WalkKeys(cfg, st, ms,
                            SourceKeys(st.h, sources[i]) \o SourceNames(st.h, sources[i]),
                            1, {}, sources[i]),
                   ms, sources, i + 1)

\* collectMembersWide({root, defaults, extra, matchers, onMatch, expandChildren})
CollectMembersWide(cfg, st0, o) ==
  LET st == SeedSet(SeedSet(st0, o.defaults), o.extra)
      root == IF Truthy(o.root) THEN o.root ELSE GetDefaultSource(cfg.host) IN
  IF st.threw THEN st
  ELSE LET sources == SourceClosure(st.h, cfg.host, root, o.expandChildren) IN
       WalkSources(cfg, [st EXCEPT !.scanned = sources], o.matchers, sources, 1)


\* --------------------------------------------------------- instrumentation
\* The closure of collectMembersWide of crawler.js: no expandChildren.
LegacySourceClosure(h, host, root) ==
  LET s1 == AddSource(h, <<>>, root)
      s3 == AddMember(h, s1, root, <<"constructor">>)
      s4 == AddMember(h, s3, root, <<"prototype">>)
      s5 == AddAncestors(h, s4, PrototypeOfV(h, root))
      g == AliasGlobal(host) IN
  IF g = Null THEN s5 ELSE AddAliases(h, s5, g.o, NameCandidates(h, root), 1)

\* The loop over allKeys of one source in crawler.js, from i on.
RECURSIVE LegacyWalkKeys(_, _, _, _, _, _)
LegacyWalkKeys(st, ms, allKeys, i, seen, src) ==
  IF st.threw \/ i > Len(allKeys) THEN st
  ELSE IF allKeys[i] \in seen THEN LegacyWalkKeys(st, ms, allKeys, i + 1, seen, src)
  ELSE LET g == GetV(st.h, src, allKeys[i]) IN
       LegacyWalkKeys(IF g.ok THEN LegacyMatchers(st, ms, 1, allKeys[i], g.v, src)
                      ELSE st,
                      ms, allKeys, i + 1, seen \cup {allKeys[i]}, src)

RECURSIVE LegacyWalkSources(_, _, _, _)
LegacyWalkSources(st, ms, sources, i) ==
  IF st.threw \/ i > Len(sources) THEN st
  ELSE LegacyWalkSources(LegacyWalkKeys(st, ms,
                                        SourceKeys(st.h, sources[i])
                                          \o SourceNames(st.h, sources[i]),
                                        1, {}, sources[i]),
                         ms, sources, i + 1)

\* collectMembersWide({root, defaults, extra, matchers}) of crawler.js
LegacyCollectMembersWide(st0, o) ==
  LET st == LegacyAddAll(LegacyAddAll(st0, o.defaults), o.extra)
      root == IF Truthy(o.root) THEN o.root ELSE LegacyGetDefaultSource(o.host) IN
  IF st.threw THEN st
  ELSE LET sources == LegacySourceClosure(st.h, o.host, root) IN
       LegacyWalkSources([st EXCEPT !.scanned = sources], o.matchers, sources, 1)

\* addLoggingToFunctions(obj, options): a wide pass over obj whose onMatch is
\* wrapFunction, with a registry of its own.
AddLoggingToFunctions(h, ws, li, cfg, o) ==
  IF ~Truthy(Ref(cfg.obj)) THEN NewPass(h, ws, li)
  ELSE CollectMembersWide(cfg, NewPass(h, ws, li),
                          [root |-> Ref(cfg.obj), defaults |-> Seed(TRUE, <<>>),
                           extra |-> Seed(TRUE, <<>>), matchers |-> o.matchers,
                           expandChildren |-> o.expandChildren])

\* ------------------------------------------------------- calling a wrapper
\* cs threads what calls read and write: trace, acts, promises, microtasks.
\* A trace event is a logger delivery (kind "obs") or a wrapper's exit to its
\* caller (kind "exit", with outcome "return" or "throw" and the value in result
\* or error).  act and call tell which activation and which client call an
\* event belongs to; they are bookkeeping, not fields the logger sees.

Event(kind, phase, w, act, call, args, result, error, thisArg, outcome) ==
  [kind |-> kind, phase |-> phase, key |-> w.key, label |-> w.label,
   run |-> w.run, act |-> act, call |-> call, args |-> args, result |-> result,
   error |-> error, thisArg |-> thisArg, outcome |-> outcome,
   failed |-> (kind = "obs" /\ w.logger = "throws")]

\* runLogger(info): the logger is called once; what it throws is swallowed
\* (the event keeps whether the logger failed on it).
RunLogger(cs, w, act, call, phase, args, result, error, thisArg) ==
  [cs EXCEPT !.trace = Append(@, Event("obs", phase, w, act, call, args, result,
                                       error, thisArg, ""))]

Exit(cs, w, act, call, args, thisArg, outcome, v) ==
  [cs EXCEPT !.trace = Append(@, Event("exit", "", w, act, call, args,
                                       IF outcome = "return" THEN v ELSE Undef,
                                       IF outcome = "throw" THEN v ELSE Undef,
                                       thisArg, outcome)),
             !.acts[act].outcome = outcome,
             !.acts[act].val = v]

Reaction(kind, wi, act, call, args, thisArg, derived) ==
  [kind |-> kind, w |-> wi, act |-> act, call |-> call, args |-> args,
   thisArg |-> thisArg, derived |-> derived]

NewPromise(native, parent, act) ==
  [native |-> native, state |-> "pending", val |-> Undef, reactions |-> <<>>,
   parent |-> parent, act |-> act]

\* p.then(cb) / p.catch(cb) on a native promise: a derived promise, and either a
\* reaction kept on p or, when p is settled, a job.
Chain(cs, p, kind, wi, act, call, args, thisArg) ==
  LET d == Len(cs.promises) + 1
      r == Reaction(kind, wi, act, call, args, thisArg, d)
      ps == Append(cs.promises, NewPromise(TRUE, p, act)) IN
  IF cs.promises[p].state = "pending"
  THEN [cs EXCEPT !.promises = [ps EXCEPT ![p].reactions = Append(@, r)]]
  ELSE [cs EXCEPT !.promises = ps,
                  !.microtasks = Append(@, [reaction |-> r,
                                            state |-> cs.promises[p].state,
                                            val |-> cs.promises[p].val])]

\* The entry of a function of the object graph, kept in the trace (kind
\* "orig") with the receiver and arguments it was given and the activation
\* that called it.
Entered(cs, fn, thisArg, args, act) ==
  [cs EXCEPT !.trace = Append(@,
     [kind |-> "orig", phase |-> "", key |-> <<fn>>, label |-> "", run |-> 0,
      act |-> act, call |-> 0, args |-> args, result |-> Undef, error |-> Undef,
      thisArg |-> thisArg, outcome |-> "", failed |-> FALSE])]

\* What the original function `fn` (an object of the heap) does when called.
CallOriginal(h, cs0, fn, thisArg, args, act) ==
  LET cs == Entered(cs0, fn, thisArg, args, act) IN
  CASE h[fn].beh = "ret" -> [cs |-> cs, outcome |-> "return", val |-> Str(<<"r">>)]
    [] h[fn].beh = "this" -> [cs |-> cs, outcome |-> "return", val |-> thisArg]
    [] h[fn].beh = "arg" ->
         [cs |-> cs, outcome |-> "return",
          val |-> IF Len(args) > 0 THEN args[1] ELSE Undef]
    [] h[fn].beh = "throw" -> [cs |-> cs, outcome |-> "throw", val |-> ErrVal("E")]
    [] h[fn].beh = "throwNull" -> [cs |-> cs, outcome |-> "throw", val |-> Null]
    [] h[fn].beh \in {"promise", "thenable"} ->
         [cs |-> [cs EXCEPT !.promises =
                    Append(@, NewPromise(h[fn].beh = "promise", 0, act))],
          outcome |-> "return", val |-> PromiseVal(Len(cs.promises) + 1)]
    [] OTHER -> [cs |-> cs, outcome |-> "return", val |-> Undef]

\* typeof result.then === 'function'
HasThen(v) == v.t = "promise"

\* A variant of the wrapper body that lets the original's exception pass
\* without telling the logger.
WrapperBodyQuietThrow(cs, wi, w, act, call, thisArg, args, r) ==
  IF r.outcome = "throw"
  THEN Exit(cs, w, act, call, args, thisArg, "throw", r.val)
  ELSE Exit(RunLogger(cs, w, act, call, "call", args, r.val, Undef, thisArg),
            w, act, call, args, thisArg, "return", r.val)

\* A variant of the wrapper body that reports a plain return without its
\* result.
WrapperBodyNoResult(cs, wi, w, act, call, thisArg, args, r) ==
  IF r.outcome = "throw"
  THEN Exit(RunLogger(cs, w, act, call, "call", args, Undef, r.val, thisArg),
            w, act, call, args, thisArg, "throw", r.val)
  ELSE Exit(RunLogger(cs, w, act, call, "call", args, Undef, Undef, thisArg),
            w, act, call, args, thisArg, "return", r.val)

\* The body of an installed wrapper after originalFn.apply(this, args) gave r.
WrapperBody(cs, wi, w, act, call, thisArg, args, r) ==
  IF r.outcome = "throw"
  THEN Exit(RunLogger(cs, w, act, call, "call", args, Undef, r.val, thisArg),
            w, act, call, args, thisArg, "throw", r.val)
  ELSE IF w.awaitPromises /\ Truthy(r.val) /\ HasThen(r.val)
  THEN LET c0 == RunLogger(cs, w, act, call, "call", args, r.val, Undef, thisArg) IN
       IF c0.promises[r.val.n].native
       THEN LET c1 == Chain(c0, r.val.n, "then", wi, act, call, args, thisArg)
                c2 == Chain(c1, Len(c1.promises), "catch", wi, act, call, args, thisArg) IN
            Exit(c2, w, act, call, args, thisArg, "return", PromiseVal(Len(c2.promises)))
       ELSE Exit([c0 EXCEPT !.promises[r.val.n].reactions =
                    Append(@, Reaction("then", wi, act, call, args, thisArg, 0))],
                 w, act, call, args, thisArg, "throw", ErrVal("TypeError"))
  ELSE Exit(RunLogger(cs, w, act, call, "call", args, r.val, Undef, thisArg),
            w, act, call, args, thisArg, "return", r.val)

\* The body of a wrapper of the transform-based variant after
\* originalFn.apply(this, args) gave r: one logger delivery without a phase,
\* then `if (error) throw error; return result;`.
TransformWrapperBody(cs, wi, w, act, call, thisArg, args, r) ==
  LET result == IF r.outcome = "return" THEN r.val ELSE Undef
      error == IF r.outcome = "throw" THEN r.val ELSE Undef
      c0 == RunLogger(cs, w, act, call, "", args, result, error, thisArg) IN
  IF Truthy(error) THEN Exit(c0, w, act, call, args, thisArg, "throw", error)
  ELSE Exit(c0, w, act, call, args, thisArg, "return", result)

\* fn.apply(thisArg, args) for any value fn: [cs, outcome, val].
RECURSIVE Invoke(_, _, _, _, _, _, _, _)
Invoke(h, ws, cs, fn, thisArg, args, call, caller) ==
  IF fn.t = "wrapper"
  THEN LET act == Len(cs.acts) + 1
           w == ws[fn.n]
           c0 == [cs EXCEPT !.acts = Append(@,
                    [w |-> fn.n, call |-> call, caller |-> caller, thisArg |-> thisArg,
                     args |-> args, origOutcome |-> "", origVal |-> Undef,
                     outcome |-> "", val |-> Undef])]
           r == Invoke(h, ws, c0, w.orig, thisArg, args, call, act)
           c1 == [r.cs EXCEPT !.acts[act].origOutcome = r.outcome,
                              !.acts[act].origVal = r.val]
           c2 == IF w.variant = "transform"
                 THEN TransformWrapperBody(c1, fn.n, w, act, call, thisArg, args, r)
                 ELSE WrapperBody(c1, fn.n, w, act, call, thisArg, args, r) IN
       [cs |-> c2, outcome |-> c2.acts[act].outcome, val |-> c2.acts[act].val]
  ELSE IF fn.t = "object" /\ h[fn.o].callable
  THEN CallOriginal(h, cs, fn.o, thisArg, args, caller)
  ELSE [cs |-> cs, outcome |-> "throw", val |-> ErrVal("TypeError")]


\* ------------------------------------------------ promise settlement, jobs

RECURSIVE Enqueue(_, _, _, _, _)
Enqueue(queue, reactions, i, state, val) ==
  IF i > Len(reactions) THEN queue
  ELSE Enqueue(Append(queue, [reaction |-> reactions[i], state |-> state, val |-> val]),
               reactions, i + 1, state, val)

\* Promise p settles: its reactions become jobs.
SettlePromise(cs, p, state, val) ==
  IF p = 0 THEN cs
  ELSE [cs EXCEPT !.promises[p].state = state,
                  !.promises[p].val = val,
                  !.promises[p].reactions = <<>>,
                  !.microtasks = Enqueue(@, cs.promises[p].reactions, 1, state, val)]

\* One promise job: the continuation the wrapper passed to then (logs
\* 'resolved', returns the value) or to catch (logs 'rejected', rethrows);
\* a settlement the continuation does not handle passes through.
RunJob(cs, ws, job) ==
  LET r == job.reaction
      w == ws[r.w] IN
  IF r.kind = "then" /\ job.state = "fulfilled"
  THEN SettlePromise(RunLogger(cs, w, r.act, r.call, "resolved", r.args, job.val,
                               Undef, r.thisArg),
                     r.derived, "fulfilled", job.val)
  ELSE IF r.kind = "catch" /\ job.state = "rejected"
  THEN SettlePromise(RunLogger(cs, w, r.act, r.call, "rejected", r.args, Undef,
                               job.val, r.thisArg),
                     r.derived, "rejected", job.val)
  ELSE SettlePromise(cs, r.derived, job.state, job.val)


\* ------------------------------------------------------------ object graphs
\* The host's part of every graph: Object.prototype, Function.prototype, the
\* Object constructor with one static method, and globalThis binding Object.

Fn(beh) == Obj("FunctionPrototype", TRUE, beh, <<>>)

HostObjects ==
  [ObjectPrototype |->
     Obj("", FALSE, "", <<DataProp(<<"constructor">>, Ref("Object"), TRUE, FALSE, TRUE)>>),
   FunctionPrototype |-> Obj("ObjectPrototype", TRUE, "undef", <<>>),
   Object |->
     Obj("FunctionPrototype", TRUE, "ret",
         <<DataProp(<<"name">>, Str(<<"Object">>), FALSE, FALSE, TRUE),
           DataProp(<<"prototype">>, Ref("ObjectPrototype"), FALSE, FALSE, FALSE),
           DataProp(<<"keys">>, Ref("ObjectKeys"), TRUE, FALSE, TRUE)>>),
   ObjectKeys |-> Fn("ret"),
   String |->
     Obj("FunctionPrototype", TRUE, "ret",
         <<DataProp(<<"name">>, Str(<<"String">>), FALSE, FALSE, TRUE),
           DataProp(<<"prototype">>, Ref("StringPrototype"), FALSE, FALSE, FALSE)>>),
   StringPrototype |->
     Obj("ObjectPrototype", FALSE, "",
         <<DataProp(<<"constructor">>, Ref("String"), TRUE, FALSE, TRUE)>>),
   globalThis |->
     Obj("ObjectPrototype", FALSE, "",
         <<DataProp(<<"Object">>, Ref("Object"), TRUE, FALSE, TRUE),
           DataProp(<<"String">>, Ref("String"), TRUE, FALSE, TRUE),
           DataProp(<<"Ctor">>, Ref("Ctor"), TRUE, FALSE, TRUE)>>),
   window |->
     Obj("ObjectPrototype", FALSE, "",
         <<DataProp(<<"Object">>, Ref("fnRet"), TRUE, FALSE, TRUE),
           DataProp(<<"w">>, Num(1), TRUE, TRUE, TRUE)>>),
   empty |-> Obj("ObjectPrototype", FALSE, "", <<>>),
   fnThrow |-> Fn("throw"),
   fnThrowNull |-> Fn("throwNull"),
   fnRet |-> Fn("ret"),
   fnArg |-> Fn("arg"),
   fnThis |-> Fn("this"),
   fnPromise |-> Fn("promise"),
   fnThenable |-> Fn("thenable"),
   bare |-> Obj("", FALSE, "", <<>>),
   proxy |-> [Obj("ObjectPrototype", FALSE, "", <<>>) EXCEPT !.keysThrow = TRUE],
   src |->
     Obj("ObjectPrototype", FALSE, "",
         <<DataProp(<<"a">>, Num(1), TRUE, TRUE, TRUE),
           DataProp(<<"o", "n", "a">>, Num(2), TRUE, TRUE, TRUE),
           DataProp(<<"o", "n", "1">>, Ref("fnRet"), TRUE, TRUE, TRUE),
           AccProp(<<"b", "a">>, Undef, "throw", FALSE, TRUE, TRUE),
           DataProp(<<"h", "a">>, Num(2), TRUE, FALSE, TRUE),
           DataProp(<<"1", "a">>, Ref("bare"), TRUE, TRUE, TRUE)>>),
   Ctor |->
     Obj("FunctionPrototype", TRUE, "ret",
         <<DataProp(<<"name">>, Str(<<"Ctor">>), FALSE, FALSE, TRUE),
           DataProp(<<"prototype">>, Ref("proto"), TRUE, FALSE, FALSE),
           DataProp(<<"s">>, Ref("fnRet"), TRUE, FALSE, TRUE)>>),
   proto |->
     Obj("ObjectPrototype", FALSE, "",
         <<DataProp(<<"constructor">>, Ref("Ctor"), TRUE, FALSE, TRUE),
           DataProp(<<"f">>, Ref("fnThrow"), TRUE, FALSE, TRUE),
           DataProp(<<"p">>, Ref("fnPromise"), TRUE, FALSE, TRUE)>>),
   base |->
     Obj("ObjectPrototype", FALSE, "",
         <<DataProp(<<"h">>, Ref("fnRet"), FALSE, TRUE, TRUE),
           DataProp(<<"m">>, Ref("fnThis"), TRUE, TRUE, TRUE)>>),
   kid |-> Obj("mid", FALSE, "", <<DataProp(<<"f">>, Ref("fnArg"), TRUE, TRUE, TRUE)>>),
   mid |-> Obj("ObjectPrototype", FALSE, "", <<>>),
   named |-> Obj("ObjectPrototype", FALSE, "",
                 <<DataProp(<<"name">>, Str(<<"n">>), TRUE, TRUE, TRUE)>>)]

WithRoot(root) == [o \in DOMAIN HostObjects \cup {"root"} |->
                     IF o = "root" THEN root ELSE HostObjects[o]]

\* A plain object of functions: one that throws, one that returns, one that
\* returns a promise, one that returns a thenable without catch.
PlainRoot ==
  Obj("ObjectPrototype", FALSE, "",
      <<DataProp(<<"f">>, Ref("fnThrow"), TRUE, TRUE, TRUE),
        DataProp(<<"g">>, Ref("fnArg"), TRUE, TRUE, TRUE),
        DataProp(<<"p">>, Ref("fnPromise"), TRUE, TRUE, TRUE),
        DataProp(<<"t">>, Ref("fnThenable"), TRUE, TRUE, TRUE),
        DataProp(<<"x">>, Num(1), TRUE, TRUE, TRUE)>>)

\* An object with members that cannot be replaced: a read-only data property,
\* a getter-only accessor, a getter that throws, an inherited read-only one.
LockedRoot ==
  Obj("base", FALSE, "",
      <<DataProp(<<"f">>, Ref("fnRet"), FALSE, TRUE, FALSE),
        AccProp(<<"a">>, Ref("fnRet"), "ret", FALSE, TRUE, TRUE),
        AccProp(<<"b">>, Undef, "throw", TRUE, TRUE, TRUE),
        DataProp(<<"g">>, Ref("fnThrow"), TRUE, TRUE, TRUE)>>)

\* An instance of a class: methods on the prototype, a static on the constructor.
InstanceRoot ==
  Obj("proto", FALSE, "", <<DataProp(<<"v">>, Num(2), TRUE, TRUE, TRUE)>>)

\* A plain object with a method and a child object: the child has a method of
\* the same name as an own property, and a prototype of its own without it.
ParentRoot ==
  Obj("ObjectPrototype", FALSE, "",
      <<DataProp(<<"f">>, Ref("fnRet"), TRUE, TRUE, TRUE),
        DataProp(<<"child">>, Ref("kid"), TRUE, TRUE, TRUE)>>)


\* A plain object with a method that returns and one that throws null.
FalsyThrowRoot ==
  Obj("ObjectPrototype", FALSE, "",
      <<DataProp(<<"g">>, Ref("fnArg"), TRUE, TRUE, TRUE),
        DataProp(<<"z">>, Ref("fnThrowNull"), TRUE, TRUE, TRUE)>>)


\* ----------------------------------------------------------------- options

MatchAll == Rule("includes", "string", <<>>, "", "", "", "none")

\* Node: globalThis and global are one object, window is not defined.
NodeHost == Host("globalThis", "", "globalThis")

Options(fn, source, defaults, extra, matchers, onMatch, wrapTarget, awaitPromises) ==
  [fn |-> fn, source |-> source, root |-> source, defaults |-> defaults, extra |-> extra,
   matchers |-> matchers, expandChildren |-> <<>>, onMatch |-> onMatch,
   obj |-> "root", wrapTarget |-> wrapTarget, awaitPromises |-> awaitPromises,
   label |-> "[LOG]", logger |-> "ok", host |-> NodeHost]

\* The closure data of one addLoggingToFunctions call.
Config(o, run) ==
  [obj |-> o.obj, wrapTarget |-> o.wrapTarget, awaitPromises |-> o.awaitPromises,
   label |-> o.label, logger |-> o.logger, onMatch |-> "wrap", run |-> run,
   host |-> o.host]

\* The closure data of a collector call.
CollectConfig(o) ==
  [obj |-> o.obj, wrapTarget |-> o.wrapTarget, awaitPromises |-> o.awaitPromises,
   label |-> o.label, logger |-> o.logger, onMatch |-> o.onMatch, run |-> 0,
   host |-> o.host]

NoSeed == Seed(TRUE, <<>>)

\* The rule lists instrumentation runs with: the default (every name), and a
\* list in which two rules match the same names.
InstrumentRules ==
  {<<MatchAll>>,
   <<Rule("prefix", "string", <<"f">>, "", "", "", "none"),
     Rule("custom", "function", <<>>, "", "", "isFn", "none")>>}

ReliableLoggerOptions ==
  {Options("instrument", Ref("root"), NoSeed, NoSeed, ms, "wrap", wt, ap) :
     ms \in InstrumentRules, wt \in {"root", "prototype", "owner"}, ap \in BOOLEAN}

\* The same calls with a logger that throws on every delivery.
FailingLoggerOptions ==
  {[o EXCEPT !.logger = "throws"] :
     o \in {x \in ReliableLoggerOptions : x.wrapTarget = "root"}}

InstrumentOptions == ReliableLoggerOptions \cup FailingLoggerOptions

\* Runs that also scan the object held by the root's property `child`.
ExpandOptions ==
  {[o EXCEPT !.expandChildren = <<<<"child">>>>] :
     o \in {x \in ReliableLoggerOptions :
              ~x.awaitPromises /\ x.matchers = <<MatchAll>>}}

InstrumentHeaps == {WithRoot(PlainRoot), WithRoot(LockedRoot), WithRoot(InstanceRoot)}

\* The names a client may call on the instrumented object.
CallKeys == {<<"f">>, <<"g">>, <<"p">>, <<"t">>, <<"a">>, <<"h">>, <<"m">>,
             <<"s">>, <<"keys">>, <<"z">>}

CallArgs == {<<Num(1)>>}

\* --------------------------------------------------- instrumentation: Spec

\* ----------------------------------------------------------- matcher packs
\* The rule objects of the preset packs, in the order the table lists them;
\* packs.table holds indices into packs.rules, as the arrays hold references.
PackRules ==
  <<Rule("prefix", "string", <<"on">>, "", "", "", "none"),
    Rule("includes", "string", <<"EventListener">>, "", "", "", "none"),
    Rule("includes", "string", <<"EventTarget">>, "", "", "", "none"),
    Rule("includes", "string", <<"fetch">>, "", "", "", "none"),
    Rule("includes", "string", <<"XHR">>, "", "", "", "none"),
    Rule("includes", "string", <<"Request">>, "", "", "", "none"),
    Rule("includes", "string", <<"Response">>, "", "", "", "none"),
    Rule("includes", "string", <<"log">>, "", "", "", "none"),
    Rule("includes", "string", <<"warn">>, "", "", "", "none"),
    Rule("includes", "string", <<"error">>, "", "", "", "none"),
    Rule("includes", "string", <<"debug">>, "", "", "", "none")>>

PackTable == [domEvents |-> <<1, 2, 3>>, network |-> <<4, 5, 6, 7>>,
              console |-> <<8, 9, 10, 11>>]

\* lists are the arrays getMatcherPack handed out (mutable by their holder),
\* got what each call returned: the name asked for and the rules then seen.
NewPacks == [rules |-> PackRules, table |-> PackTable, lists |-> <<>>, got |-> <<>>,
             steps |-> 0]

\* The rule records a list of references stands for.
Deref(pk, list) == [k \in DOMAIN list |-> pk.rules[list[k]]]

\* matcherPacks[name]: an own array of the table (an object literal), or what
\* the table inherits from Object.prototype under the name.
PackLookup(pk, name) ==
  IF name \in DOMAIN pk.table THEN [array |-> TRUE, v |-> Undef]
  ELSE [array |-> FALSE, v |-> Get(HostObjects, "ObjectPrototype", <<name>>).v]

\* api.getMatcherPack(name): a slice of the table's array; [] when the lookup
\* is falsy; a TypeError when it is truthy and has no slice method.
GetMatcherPack(pk, name) ==
  IF PackLookup(pk, name).array THEN [threw |-> FALSE, list |-> pk.table[name]]
  ELSE IF Truthy(PackLookup(pk, name).v) THEN [threw |-> TRUE, list |-> <<>>]
  ELSE [threw |-> FALSE, list |-> <<>>]

Quiet ==
  /\ wrappers = <<>>
  /\ registry = {}
  /\ runs = <<>>
  /\ trace = <<>>
  /\ acts = <<>>
  /\ calls = <<>>
  /\ promises = <<>>
  /\ microtasks = <<>>
  /\ lastIndex = [r \in {"global", "sticky"} |-> 0]
  /\ results = <<>>
  /\ packs = NewPacks

Init ==
  /\ \/ heap \in InstrumentHeaps /\ opts \in InstrumentOptions
     \/ heap = WithRoot(ParentRoot) /\ opts \in ExpandOptions
  /\ Quiet

\* The client calls addLoggingToFunctions(root, opts).  Calls read the object
\* graph and never write it, so a run between two calls leaves the same graph
\* as the run made before both: the client instruments first, then calls.
Installed(st) ==
  /\ heap' = st.h
  /\ wrappers' = st.ws
  /\ registry' = st.reg
  /\ lastIndex' = st.li
  /\ runs' = Append(runs, [threw |-> st.threw, reg |-> st.reg, before |-> heap,
                           first |-> Len(wrappers) + 1, last |-> Len(st.ws),
                           notes |-> st.notes])

DoInstrument ==
  /\ Len(runs) < MaxRuns
  /\ calls = <<>>
  /\ Installed(AddLoggingToFunctions(heap, wrappers, lastIndex,
                                     Config(opts, Len(runs) + 1), opts))
  /\ UNCHANGED <<trace, acts, calls, promises, microtasks, opts, results, packs>>

\* The client calls root[key](...args).
Called(key, args, fn, r) ==
  /\ trace' = r.cs.trace
  /\ acts' = r.cs.acts
  /\ promises' = r.cs.promises
  /\ microtasks' = r.cs.microtasks
  /\ calls' = Append(calls, [key |-> key, args |-> args, fn |-> fn,
                             outcome |-> r.outcome, val |-> r.val,
                             runs |-> Len(runs)])

\* root[key], when it can be read and is a function.
Callee(f, key, args) ==
  /\ f.ok
  /\ TypeOf(heap, f.v) = "function"
  /\ Called(key, args, f.v,
            Invoke(heap, wrappers,
                   [trace |-> trace, acts |-> acts, promises |-> promises,
                    microtasks |-> microtasks],
                   f.v, Ref("root"), args, Len(calls) + 1, 0))

DoCall ==
  /\ Len(calls) < MaxCalls
  /\ \E key \in CallKeys, args \in CallArgs : Callee(Get(heap, "root", key), key, args)
  /\ UNCHANGED <<heap, wrappers, registry, runs, opts, lastIndex, results, packs>>

\* What a settlement leaves: the promises and the job queue.
Queued(cs) ==
  /\ promises' = cs.promises
  /\ microtasks' = cs.microtasks

\* A thenable made by an original function fulfils or rejects.  Whatever
\* settles it runs as a task of its own, and the host empties the job queue
\* before it starts a task.
DoSettle ==
  /\ microtasks = <<>>
  /\ \E p \in 1..Len(promises), how \in {"fulfilled", "rejected"} :
       /\ promises[p].parent = 0
       /\ promises[p].state = "pending"
       /\ Queued(SettlePromise([trace |-> trace, acts |-> acts,
                                promises |-> promises, microtasks |-> microtasks],
                               p, how,
                               IF how = "fulfilled" THEN Num(2) ELSE ErrVal("R")))
  /\ UNCHANGED <<heap, wrappers, registry, runs, trace, acts, calls, opts,
                 lastIndex, results, packs>>

\* What a promise job leaves: the trace, the promises and the job queue.
JobDone(cs) ==
  /\ trace' = cs.trace
  /\ promises' = cs.promises
  /\ microtasks' = cs.microtasks

\* The host runs the first promise job.
DoRunJob ==
  /\ microtasks # <<>>
  /\ JobDone(RunJob([trace |-> trace, acts |-> acts, promises |-> promises,
                     microtasks |-> Tail(microtasks)],
                    wrappers, Head(microtasks)))
  /\ UNCHANGED <<heap, wrappers, registry, runs, acts, calls, opts, lastIndex,
                 results, packs>>

Next == DoInstrument \/ DoCall \/ DoSettle \/ DoRunJob

Spec == Init /\ [][Next]_vars


\* ------------------------------- transform-based instrumentation: SpecVariants
\* addLoggingToFunctions(obj, {matchers, logger, label}) of the transform-based
\* variant takes no wrapTarget, awaitPromises or expandChildren.
TransformOptions ==
  {[Options("transform", Ref("root"), NoSeed, NoSeed, ms, "transform", "root", FALSE)
      EXCEPT !.logger = lg] : ms \in InstrumentRules, lg \in {"ok", "throws"}}

TransformConfig(o, run) == [Config(o, run) EXCEPT !.onMatch = "transform"]

VariantHeaps == InstrumentHeaps \cup {WithRoot(ParentRoot), WithRoot(FalsyThrowRoot)}

InitVariants ==
  /\ heap \in VariantHeaps
  /\ opts \in TransformOptions
  /\ Quiet

\* The transform-based addLoggingToFunctions(obj, options): the rules are
\* cloned with the wrapping transform and handed to collectMembersWide.
TransformAddLogging(h, ws, li, cfg, o) ==
  IF ~Truthy(Ref(cfg.obj)) THEN NewPass(h, ws, li)
  ELSE CollectMembersWide(cfg, NewPass(h, ws, li),
                          [root |-> Ref(cfg.obj), defaults |-> Seed(TRUE, <<>>),
                           extra |-> Seed(TRUE, <<>>), matchers |-> o.matchers,
                           expandChildren |-> <<>>])

\* The client calls the transform-based addLoggingToFunctions(root, opts).
DoTransformInstrument ==
  /\ Len(runs) < MaxRuns
  /\ calls = <<>>
  /\ Installed(TransformAddLogging(heap, wrappers, lastIndex,
                                   TransformConfig(opts, Len(runs) + 1), opts))
  /\ UNCHANGED <<trace, acts, calls, promises, microtasks, opts, results, packs>>

NextVariants == DoTransformInstrument \/ DoCall

SpecVariants == InitVariants /\ [][NextVariants]_vars


\* ------------------------------------------------------ collectors: inputs

RECURSIVE SeqsUpTo(_, _)
SeqsUpTo(S, n) ==
  IF n = 0 THEN {<<>>}
  ELSE LET shorter == SeqsUpTo(S, n - 1) IN
       shorter \cup {Append(q, x) : q \in {r \in shorter : Len(r) = n - 1}, x \in S}

\* The rules a list is drawn from: each kind, string and non-string patterns,
\* regexes with a cursor (g, y), predicates and transforms that return odd
\* values or throw, and an entry that is not an object.
RulePool ==
  {Rule("prefix", "string", <<"o", "n">>, "", "", "", "slice"),
   Rule("includes", "string", <<"a">>, "", "", "", "none"),
   Rule("suffix", "string", <<"a">>, "", "", "", "empty"),
   Rule("suffix", "number", <<"a">>, "", "", "", "none"),
   Rule("regex", "regex", <<"a">>, "g", "global", "", "none"),
   Rule("regex", "regex", <<"o">>, "y", "sticky", "", "one"),
   Rule("custom", "function", <<>>, "", "", "isFn", "null"),
   Rule("custom", "function", <<>>, "", "", "one", "value"),
   Rule("custom", "function", <<>>, "", "", "throw", "none"),
   Rule("glob", "string", <<"a">>, "", "", "", "none"),
   Rule("includes", "string", <<>>, "", "", "", "throw"),
   NullRule}

\* defaults and extra, as a single value or as an array: strings, a number that
\* coerces to a key's slice, null, falsy single values, an object String() rejects.
SeedPairs ==
  {<<NoSeed, NoSeed>>,
   <<Seed(TRUE, <<Str(<<"a">>), Null, Num(1)>>), Seed(FALSE, <<Str(<<"b">>)>>)>>,
   <<Seed(FALSE, <<Num(0)>>), Seed(TRUE, <<Str(<<"b">>), Str(<<"b">>)>>)>>,
   <<Seed(FALSE, <<Str(<<>>)>>), Seed(FALSE, <<Undef>>)>>,
   <<Seed(TRUE, <<Str(<<>>)>>), Seed(TRUE, <<Ref("bare")>>)>>}

\* source / root: an object with keys, one without, one whose keys cannot be
\* listed, and null.
CollectSources == {Ref("src"), Ref("bare"), Ref("proxy"), Null}

\* The hosts a collector may run in: Node, a browser (window is globalThis),
\* Node with a window object of its own, hosts older than globalThis, and one
\* with none of the three bindings.
Hosts ==
  {NodeHost,
   Host("globalThis", "globalThis", ""),
   Host("globalThis", "window", "globalThis"),
   Host("", "window", ""),
   Host("", "", "globalThis"),
   Host("", "", "")}

IsFnRule == Rule("custom", "function", <<>>, "", "", "isFn", "none")

\* The rules the observed passes are drawn from: one that matches every key,
\* a predicate, a rule whose output is discarded, a transform that throws.
ObservedRules ==
  {Rule("includes", "string", <<>>, "", "", "", "none"),
   IsFnRule,
   Rule("prefix", "string", <<"o", "n">>, "", "", "", "empty"),
   Rule("includes", "string", <<"a">>, "", "", "", "throw")}

\* Calls over every source, seed pair and rule list, without an observer.
PlainOptions ==
  {Options(fn, source, sp[1], sp[2], ms, "none", "root", FALSE) :
     fn \in {"collect", "wide", "legacy"}, source \in CollectSources,
     sp \in SeedPairs, ms \in SeqsUpTo(RulePool, MaxRules)}

\* Calls with an observer, one that records and one that throws; the source
\* is an object with keys or a constructor function.
ObservedOptions ==
  {Options(fn, source, NoSeed, NoSeed, ms, om, "root", FALSE) :
     fn \in {"collect", "wide"}, source \in {Ref("src"), Ref("Ctor")},
     ms \in SeqsUpTo(ObservedRules, MaxRules), om \in {"record", "throw"}}

\* Calls that leave source / root out, in each host.
HostOptions ==
  {[Options(fn, IF fn = "wide" THEN Null ELSE Undef, NoSeed, NoSeed, ms, "none",
            "root", FALSE) EXCEPT !.host = host] :
     fn \in {"collect", "wide", "legacy"}, host \in Hosts,
     ms \in {<<>>, <<IsFnRule>>}}

\* Roots of collectMembersWide: the plain object, a constructor, its
\* prototype, an object with a two-step prototype chain, one without a
\* prototype, Object.prototype itself, a string, and an object with an
\* enumerable property called name.
ClosureRoots ==
  {Ref("root"), Ref("Ctor"), Ref("proto"), Ref("kid"), Ref("bare"),
   Ref("ObjectPrototype"), Str(<<"a">>), Ref("named")}

\* expandChildren: nothing; a function member, a number member and a name
\* that is absent; a member that is also root.prototype, and an inherited one.
ExpandLists ==
  {<<>>, <<<<"f">>, <<"x">>, <<"n", "o">>>>, <<<<"prototype">>, <<"constructor">>>>}

\* Calls of collectMembersWide over the roots and expandChildren lists, in a
\* host whose global object binds the constructors and in one whose window
\* binds another function under the name Object.
ClosureOptions ==
  {[Options(fn, root, NoSeed, NoSeed, <<IsFnRule>>, "none", "root", FALSE)
      EXCEPT !.expandChildren = ec, !.host = host] :
     fn \in {"wide", "legacyWide"}, root \in ClosureRoots, ec \in ExpandLists,
     host \in {NodeHost, Host("", "window", ""), Host("", "", "")}}

\* Calls whose source / root is a string.
StringOptions ==
  {Options(fn, Str(<<"a">>), NoSeed, NoSeed, ms, "none", "root", FALSE) :
     fn \in {"collect", "wide"}, ms \in {<<MatchAll>>, <<IsFnRule>>}}

CollectOptions ==
  PlainOptions \cup ObservedOptions \cup HostOptions \cup ClosureOptions
    \cup StringOptions

\* ----------------------------------------------------- collectors: actions

InitCollect ==
  /\ heap = WithRoot(PlainRoot)
  /\ opts \in CollectOptions
  /\ Quiet

Finish(fn, st) ==
  /\ lastIndex' = st.li
  /\ results' = Append(results, [fn |-> fn, threw |-> st.threw,
                                 out |-> IF st.threw THEN <<>> ELSE st.res,
                                 before |-> lastIndex, notes |-> st.notes,
                                 evals |-> st.evals, scanned |-> st.scanned])
  /\ UNCHANGED <<heap, wrappers, registry, runs, trace, acts, calls, promises,
                 microtasks, opts, packs>>

\* The client calls MemberCollector.collectMembers(opts).
DoCollect ==
  /\ opts.fn = "collect"
  /\ Len(results) < MaxCollectCalls
  /\ Finish("collect",
            CollectMembers(CollectConfig(opts), NewPass(heap, wrappers, lastIndex), opts))

\* The client calls MemberCollector.collectMembersWide(opts).
DoCollectWide ==
  /\ opts.fn = "wide"
  /\ Len(results) < MaxCollectCalls
  /\ Finish("wide",
            CollectMembersWide(CollectConfig(opts), NewPass(heap, wrappers, lastIndex), opts))

\* The client calls collectMembers(opts) of crawler.js.
DoLegacyCollect ==
  /\ opts.fn = "legacy"
  /\ Len(results) < MaxCollectCalls
  /\ Finish("legacy", LegacyCollectMembers(NewPass(heap, wrappers, lastIndex), opts))

\* The client calls collectMembersWide(opts) of crawler.js.
DoLegacyCollectWide ==
  /\ opts.fn = "legacyWide"
  /\ Len(results) < MaxCollectCalls
  /\ Finish("legacyWide",
            LegacyCollectMembersWide(NewPass(heap, wrappers, lastIndex), opts))

NextCollect == DoCollect \/ DoCollectWide \/ DoLegacyCollect \/ DoLegacyCollectWide

SpecCollect == InitCollect /\ [][NextCollect]_vars


\* ------------------------------------------------- matcher packs: actions

PackNames == {"domEvents", "network", "console", "other", "constructor"}

InitPacks ==
  /\ heap = WithRoot(PlainRoot)
  /\ opts \in {Options("packs", Undef, NoSeed, NoSeed, <<>>, "none", "root", FALSE)}
  /\ wrappers = <<>> /\ registry = {} /\ runs = <<>> /\ trace = <<>>
  /\ acts = <<>> /\ calls = <<>> /\ promises = <<>> /\ microtasks = <<>>
  /\ lastIndex = [r \in {"global", "sticky"} |-> 0]
  /\ results = <<>>
  /\ packs = [NewPacks EXCEPT !.steps = 0]

PacksOnly == UNCHANGED <<heap, wrappers, registry, runs, trace, acts, calls,
                         promises, microtasks, opts, lastIndex, results>>

\* What a call of getMatcherPack(name) leaves with the client: the array,
\* when one was returned.
Got(name, r) ==
  packs' = [packs EXCEPT !.lists = IF r.threw THEN @ ELSE Append(@, r.list),
                         !.got = Append(@, [name |-> name, threw |-> r.threw,
                                            list |-> r.list,
                                            rules |-> Deref(packs, r.list)])]

\* The client calls getMatcherPack(name) and keeps the array.
DoGetMatcherPack ==
  /\ Len(packs.got) < MaxPackCalls
  /\ \E name \in PackNames : Got(name, GetMatcherPack(packs, name))
  /\ PacksOnly

\* list.push(entry): a rule object of the client's own, or one it already holds.
DoPush ==
  /\ packs.steps < MaxPackEdits
  /\ \E l \in DOMAIN packs.lists :
       \/ packs' = [packs EXCEPT !.rules = Append(@, MatchAll),
                                 !.lists[l] = Append(@, Len(packs.rules) + 1),
                                 !.steps = @ + 1]
       \/ \E k \in DOMAIN packs.lists[l] :
            packs' = [packs EXCEPT !.lists[l] = Append(@, packs.lists[l][k]),
                                   !.steps = @ + 1]
  /\ PacksOnly

\* list.pop()
DoPop ==
  /\ packs.steps < MaxPackEdits
  /\ \E l \in DOMAIN packs.lists :
       /\ packs.lists[l] # <<>>
       /\ packs' = [packs EXCEPT !.lists[l] = SubSeq(@, 1, Len(@) - 1),
                                 !.steps = @ + 1]
  /\ PacksOnly

\* list[k].type = ... or list[k].value = ...: a field of an entry is changed.
DoSetField ==
  /\ packs.steps < MaxPackEdits
  /\ \E l \in DOMAIN packs.lists : \E k \in DOMAIN packs.lists[l] :
       \/ packs' = [packs EXCEPT !.rules[packs.lists[l][k]].type = "suffix",
                                 !.steps = @ + 1]
       \/ packs' = [packs EXCEPT !.rules[packs.lists[l][k]].s = <<"x">>,
                                 !.steps = @ + 1]
  /\ PacksOnly

NextPacks == DoGetMatcherPack \/ DoPush \/ DoPop \/ DoSetField

SpecPacks == InitPacks /\ [][NextPacks]_vars


\* ------------------------------------------------- properties of wrappers

ObsOf(a) == {i \in DOMAIN trace : trace[i].kind = "obs" /\ trace[i].act = a}

ExitOf(a) == {i \in DOMAIN trace : trace[i].kind = "exit" /\ trace[i].act = a}

PhaseOf(a, phase) == {i \in ObsOf(a) : trace[i].phase = phase}

\* The activations a client call set off, the outermost one included.
ActsOf(c) == {a \in DOMAIN acts : acts[a].call = c}

\* The outermost activation of client call c (0 when c reached no wrapper).
OuterAct(c) ==
  IF \E a \in ActsOf(c) : acts[a].caller = 0
  THEN CHOOSE a \in ActsOf(c) : acts[a].caller = 0
  ELSE 0

\* C1: when the original of a wrapped function throws E, the wrapped call
\* throws that same E, exactly one observation is delivered for that
\* activation, it has phase 'call' and carries E, and it is delivered before
\* the throw reaches the caller.
C1_ThrowIsTransparent ==
  \A a \in DOMAIN acts :
    acts[a].origOutcome = "throw" =>
      /\ acts[a].outcome = "throw"
      /\ acts[a].val = acts[a].origVal
      /\ Cardinality(ObsOf(a)) = 1
      /\ \A i \in ObsOf(a) :
           /\ trace[i].phase = "call"
           /\ trace[i].error = acts[a].origVal
           /\ \A x \in ExitOf(a) : i < x

\* A wrapper around a function of the object graph was called and the
\* function threw.
C1_Witness ==
  \E a \in DOMAIN acts :
    /\ acts[a].origOutcome = "throw"
    /\ acts[a].origVal = ErrVal("E")
    /\ wrappers[acts[a].w].orig.t = "object"
    /\ ExitOf(a) # {}

\* C2: after instrumenting twice with the same rules, one call of a matching
\* function runs one wrapper: one activation, one 'call' observation.
C2_WrappedOnce ==
  \A c \in DOMAIN calls :
    /\ Cardinality(ActsOf(c)) <= 1
    /\ Cardinality({i \in DOMAIN trace : trace[i].kind = "obs" /\ trace[i].call = c
                                          /\ trace[i].phase = "call"}) <= 1

\* C3: the wrapper hands its caller the value the original returned, the very
\* thenable included when awaitPromises is set.
C3_ReturnsOriginalValue ==
  \A a \in DOMAIN acts :
    acts[a].origOutcome = "return" =>
      acts[a].outcome = "return" /\ acts[a].val = acts[a].origVal

\* The thenable the original of activation a returned (0 when it returned none).
ThenableOf(a) ==
  IF acts[a].origOutcome = "return" /\ HasThen(acts[a].origVal)
  THEN acts[a].origVal.n ELSE 0

\* C4 (its settled part): with awaitPromises, once the thenable an original
\* returned has settled and no promise job is left, the activation has its
\* 'call' observation first and exactly one settlement observation, of the
\* matching phase and carrying the settlement value.
C4_SettlementObserved ==
  \A a \in DOMAIN acts :
    (/\ wrappers[acts[a].w].awaitPromises
     /\ ThenableOf(a) # 0
     /\ promises[ThenableOf(a)].state # "pending"
     /\ microtasks = <<>>) =>
      LET t == promises[ThenableOf(a)]
          phase == IF t.state = "fulfilled" THEN "resolved" ELSE "rejected"
          other == IF t.state = "fulfilled" THEN "rejected" ELSE "resolved" IN
      /\ Cardinality(PhaseOf(a, "call")) = 1
      /\ Cardinality(PhaseOf(a, phase)) = 1
      /\ PhaseOf(a, other) = {}
      /\ \A i \in PhaseOf(a, phase) :
           /\ IF phase = "resolved" THEN trace[i].result = t.val
              ELSE trace[i].error = t.val
           /\ \A j \in PhaseOf(a, "call") : j < i

\* The members of object o that an assignment cannot replace: a read-only,
\* non-configurable data property or an accessor with a getter and no setter.
Unreplaceable(p) ==
  IF p.acc THEN p.get # "none" /\ ~p.hasSet
  ELSE ~p.writable /\ ~p.configurable

\* The object graph run i left behind.
After(i) == IF i < Len(runs) THEN runs[i + 1].before ELSE heap

Range(q) == {q[i] : i \in DOMAIN q}

\* C6: no call of collect, collectWide or instrument raises to its caller.
C6_NeverRaises ==
  /\ \A i \in DOMAIN results : ~results[i].threw
  /\ \A i \in DOMAIN runs : ~runs[i].threw

\* C7: the sequence a collector returns holds no string twice.
C7_NoDuplicates ==
  \A i \in DOMAIN results :
    \A j, k \in DOMAIN results[i].out :
      j # k => results[i].out[j] # results[i].out[k]

SliceOn == Rule("prefix", "string", <<"o", "n">>, "", "", "", "slice")

IncludesA == Rule("includes", "string", <<"a">>, "", "", "", "none")

\* collect returned where a seed 'a', the key 'a' and the slice of key 'ona'
\* are one string, and the seed 1 and the slice of key 'on1' another.
C7_Witness ==
  \E i \in DOMAIN results :
    /\ results[i].fn = "collect"
    /\ ~results[i].threw
    /\ opts.source = Ref("src")
    /\ opts.defaults = Seed(TRUE, <<Str(<<"a">>), Null, Num(1)>>)
    /\ opts.matchers = <<SliceOn, IncludesA>>
    /\ {<<"a">>, <<"1">>} \subseteq Range(results[i].out)

\* The values given as defaults and extra that are neither null nor undefined.
SeedGiven ==
  {v \in Range(opts.defaults.vals) \cup Range(opts.extra.vals) :
     v.t \notin {"undefined", "null"}}

\* Their string coercions, where String() is defined.
SeedStrings == {ToStr(heap, v).s : v \in {x \in SeedGiven : ToStr(heap, x).ok}}

\* C8: every seed value other than null and undefined is in the result of
\* collect as its string coercion; with a null source, a source whose keys
\* cannot be listed, or no keys and no rules, the result is the seeded set.
C8_SeedsPresent ==
  \A i \in DOMAIN results :
    (results[i].fn = "collect" /\ ~results[i].threw) =>
      /\ SeedStrings \subseteq Range(results[i].out)
      /\ (\/ opts.source = Null
          \/ opts.source.t = "object" /\ heap[opts.source.o].keysThrow
          \/ opts.source.t = "object" /\ heap[opts.source.o].props = <<>>
                                      /\ opts.matchers = <<>>) =>
           Range(results[i].out) = SeedStrings

\* Whether rule m matches key k with value v of source S, as the contract
\* words it: a fresh test for a regex, truthiness for a predicate.
KeyMatches(m, k, v, S) ==
  CASE m.type = "prefix" /\ m.pt = "string" -> StartsWith(k, m.s)
    [] m.type = "suffix" /\ m.pt = "string" -> EndsWith(k, m.s)
    [] m.type = "includes" /\ m.pt = "string" -> Includes(k, m.s)
    [] m.type = "regex" /\ m.pt = "regex" ->
         IF m.flags = "y" THEN StartsWith(k, m.s) ELSE Includes(k, m.s)
    [] m.type = "custom" /\ m.pt = "function" ->
         Truthy(PredicateCall(heap, m.pred, k, v, S).v)
    [] OTHER -> FALSE

OutOf(m, k, v) == IF m.tf = "none" THEN Str(k) ELSE TransformCall(m, k, v).v

Kept(out) == out.t \notin {"undefined", "null"} /\ out # Str(<<>>)

\* The enumerable own keys of the source, in order.
EnumerableKeys == ObjectKeys(heap, opts.source.o).keys

\* S[k], undefined standing for a read that throws.
ValueAt(k) ==
  LET g == Get(heap, opts.source.o, k) IN IF g.ok THEN g.v ELSE Undef

Readable(k) == Get(heap, opts.source.o, k).ok

\* The outputs of the matching (key, rule) pairs over the keys in K.
OutputsOver(K) ==
  UNION {{OutOf(m, k, ValueAt(k)) :
            m \in {r \in Range(opts.matchers) :
                     KeyMatches(r, k, ValueAt(k), opts.source)}} : k \in K}

\* The rule entries are rules, no predicate or transform throws, and String()
\* is defined on every seed and every output.
WellBehaved ==
  /\ opts.source.t = "object"
  /\ ~heap[opts.source.o].keysThrow
  /\ \A m \in Range(opts.matchers) :
       m.shape # "null" /\ m.pred # "throw" /\ m.tf # "throw"
  /\ \A v \in SeedGiven : ToStr(heap, v).ok
  /\ \A out \in OutputsOver(Range(EnumerableKeys)) : Kept(out) => ToStr(heap, out).ok

ExpectedOver(K) == {ToStr(heap, out).s : out \in {x \in OutputsOver(K) : Kept(x)}}

\* C9 as amended: beyond the seeds, collect contributes exactly the string
\* coercions of the kept outputs of the matching (key, rule) pairs, over the
\* own enumerable keys whose value can be read.
C9_ExactContribution ==
  \A i \in DOMAIN results :
    (results[i].fn = "collect" /\ WellBehaved) =>
      /\ ~results[i].threw
      /\ Range(results[i].out) \ SeedStrings =
           ExpectedOver({k \in Range(EnumerableKeys) : Readable(k)}) \ SeedStrings

\* C9 as stated: the same over every own enumerable key.
C9_AllEnumerableKeys ==
  \A i \in DOMAIN results :
    (results[i].fn = "collect" /\ WellBehaved) =>
      /\ ~results[i].threw
      /\ Range(results[i].out) \ SeedStrings =
           ExpectedOver(Range(EnumerableKeys)) \ SeedStrings

\* collect returned the slices 'a' and '1' of the keys 'ona' and 'on1' for
\* the prefix rule, and nothing for the other keys.
C9_Witness ==
  \E i \in DOMAIN results :
    /\ results[i].fn = "collect"
    /\ WellBehaved
    /\ opts.source = Ref("src")
    /\ opts.matchers = <<SliceOn>>
    /\ SeedGiven = {}
    /\ Range(results[i].out) = {<<"a">>, <<"1">>}

\* C10: a regex rule gives the same answers whatever was tested before: two
\* calls with the same pattern object and source return the same, and each
\* returns what a call starting from fresh cursors returns.
C10_RegexStateless ==
  \A i, j \in DOMAIN results :
    /\ results[i].out = results[j].out
    /\ results[i].threw = results[j].threw


\* C11: in one collectMembersWide call an object that the closure reaches by
\* two routes is scanned once: no predicate is invoked twice for the same
\* (object, key) by the same rule.
C11_ScannedOnce ==
  \A i \in DOMAIN results :
    results[i].fn = "wide" =>
      /\ \A a, b \in DOMAIN results[i].scanned :
           a # b => results[i].scanned[a] # results[i].scanned[b]
      /\ \A a, b \in DOMAIN results[i].evals :
           a # b => results[i].evals[a] # results[i].evals[b]

\* collectMembersWide scanned a root whose constructor is also the global
\* alias of its name, and a predicate was called on that constructor's keys.
C11_Witness ==
  \E i \in DOMAIN results :
    /\ results[i].fn = "wide"
    /\ ~results[i].threw
    /\ opts.source.t = "object"
    /\ LET c == Get(heap, opts.source.o, <<"constructor">>).v
           n == GetV(heap, c, <<"name">>).v
           g == AliasGlobal(opts.host) IN
       /\ c.t = "object" /\ n.t = "string" /\ g # Null
       /\ Get(heap, g.o, n.s).v = c
       /\ \E e \in DOMAIN results[i].evals : results[i].evals[e].source = c


\* The object bound to the first defined of globalThis, window, global, in
\* that order; the empty object when none is defined.
FirstBound ==
  LET order == <<opts.host.globalThis, opts.host.window, opts.host.global>>
      defined == {k \in 1..3 : order[k] # ""} IN
  IF defined = {} THEN "empty"
  ELSE order[CHOOSE k \in defined : \A l \in defined : k <= l]

\* The call left its source (collectMembers) or root (collectMembersWide) out.
SourceOmitted(i) ==
  IF results[i].fn = "wide" THEN ~Truthy(opts.source) ELSE opts.source = Undef

\* C12: a call without source / root scans the first defined of globalThis,
\* window, global (an empty object when there is none), and the alias lookup
\* of collectMembersWide reads the same object.
C12_DefaultSourceOrder ==
  \A i \in DOMAIN results :
    (SourceOmitted(i) /\ ~results[i].threw) =>
      /\ results[i].scanned # <<>>
      /\ results[i].scanned[1] = Ref(FirstBound)
      /\ results[i].fn = "wide" =>
           LET c == Get(heap, FirstBound, <<"constructor">>).v IN
           Range(results[i].scanned) \subseteq
             {Ref(FirstBound), c, Get(heap, FirstBound, GetV(heap, c, <<"name">>).v.s).v}


\* C13: whatever was done to the arrays getMatcherPack handed out, the table
\* holds each preset's original rules, and so does what every call returned.
C13_TableIntact ==
  /\ \A name \in DOMAIN PackTable :
       Deref(packs, GetMatcherPack(packs, name).list) = Deref(NewPacks, PackTable[name])
  /\ \A g \in DOMAIN packs.got :
       packs.got[g].name \in DOMAIN PackTable =>
         packs.got[g].rules = Deref(NewPacks, PackTable[packs.got[g].name])


\* C14: wrapTarget says where a wrapper is installed: 'root' on the
\* instrumented object, 'prototype' on the instrumented object's prototype,
\* 'owner' on the closure member the matched property was found on.
C14_InstalledWhereAsked ==
  \A w \in DOMAIN wrappers :
    /\ heap[wrappers[w].target].props[PropIndex(heap[wrappers[w].target].props,
                                                wrappers[w].key)].val.t = "wrapper"
    /\ wrappers[w].target =
         CASE opts.wrapTarget = "root" -> opts.obj
           [] opts.wrapTarget = "prototype" -> heap[opts.obj].proto
           [] OTHER -> wrappers[w].source


\* The entries of the original of activation a: of a function of the object
\* graph, or of the wrapper it was installed around.
OrigEntries(a) ==
  {[thisArg |-> trace[i].thisArg, args |-> trace[i].args, at |-> i] :
     i \in {k \in DOMAIN trace : trace[k].kind = "orig" /\ trace[k].act = a}}
  \cup {[thisArg |-> acts[b].thisArg, args |-> acts[b].args, at |-> 0 - b] :
          b \in {x \in DOMAIN acts : acts[x].caller = a}}

C16_NormalReturnKept ==
  \A a \in DOMAIN acts :
    acts[a].origOutcome = "return" => acts[a].outcome = "return"


\* The wrappers run i installed.
InstalledBy(i) == {w \in DOMAIN wrappers : wrappers[w].run = i}

\* C17: every (target, key) pair in the registry of a run has a wrapper that
\* the run installed at target[key]; a getter-only member and a member whose
\* replacement failed are not in the registry.
C17_RegistryMeansInstalled ==
  \A i \in DOMAIN runs : \A e \in runs[i].reg :
    \E w \in InstalledBy(i) :
      wrappers[w].target = e[1] /\ wrappers[w].key = e[2]


\* C18: a run installs at most one wrapper per (target, key) pair, and no
\* wrapper of a run forwards to a wrapper of the same run.
C18_OneWrapperPerPair ==
  /\ \A v, w \in DOMAIN wrappers :
       (/\ wrappers[v].run = wrappers[w].run
        /\ wrappers[v].target = wrappers[w].target
        /\ wrappers[v].key = wrappers[w].key) => v = w
  /\ \A w \in DOMAIN wrappers :
       wrappers[w].orig.t = "wrapper" =>
         wrappers[wrappers[w].orig.n].run # wrappers[w].run


\* A rule whose predicate or whose transform fails on every key.
Fails(m) ==
  m.shape = "rule" /\ \/ (m.type = "custom" /\ m.pt = "function" /\ m.pred = "throw")
                      \/ m.tf = "throw"

WithoutFailingRules(ms) == SelectSeq(ms, LAMBDA m : ~Fails(m))

\* The object graph without the properties whose read fails.
WithoutUnreadable(h) ==
  [o \in DOMAIN h |->
     [h[o] EXCEPT !.props = SelectSeq(@, LAMBDA p : ~(p.acc /\ p.get = "throw"))]]

\* Call i made again, from the state it was made in, on graph h with options o.
Again(i, h, o) ==
  LET st == NewPass(h, wrappers, results[i].before) IN
  CASE results[i].fn = "collect" -> CollectMembers(CollectConfig(o), st, o)
    [] results[i].fn = "wide" -> CollectMembersWide(CollectConfig(o), st, o)
    [] results[i].fn = "legacyWide" -> LegacyCollectMembersWide(st, o)
    [] OTHER -> LegacyCollectMembers(st, o)

\* Call i scanned an object with a property whose read fails.
MetUnreadable(i) ==
  \E S \in Range(results[i].scanned) :
    S.t = "object" /\ \E p \in Range(heap[S.o].props) : p.acc /\ p.get = "throw"

\* The list and the outcome of a pass are those of call i.
SameAs(i, st) == ~st.threw /\ st.res = results[i].out

\* C19: a call that returns gives the list it would give without the rules
\* whose predicate or transform fails, and the list it would give without the
\* properties whose read fails.
C19_FailuresIsolated ==
  \A i \in DOMAIN results :
    ~results[i].threw =>
      /\ (\E m \in Range(opts.matchers) : Fails(m)) =>
           SameAs(i, Again(i, heap,
                           [opts EXCEPT !.matchers = WithoutFailingRules(@)]))
      /\ MetUnreadable(i) => SameAs(i, Again(i, WithoutUnreadable(heap), opts))

\* A call scanned an object with an unreadable property under a list with a
\* rule whose transform fails on keys it matches and a rule that works, and
\* returned names.
C19_Witness ==
  \E i \in DOMAIN results :
    /\ ~results[i].threw
    /\ Ref("src") \in Range(results[i].scanned)
    /\ MetUnreadable(i)
    /\ \E m \in Range(opts.matchers) : m.tf = "throw" /\ m.type = "includes"
    /\ \E m \in Range(opts.matchers) : ~Fails(m)
    /\ results[i].out # <<>>


\* The keys a pass reads on scanned object S: the enumerable own keys for
\* collectMembers, those and the own property names for collectMembersWide.
KeysRead(fn, S) ==
  IF fn = "wide" THEN Range(SourceKeys(heap, S)) \cup Range(SourceNames(heap, S))
  ELSE Range(ObjectKeys(heap, S.o).keys)

\* The (scanned object, key, rule) triples of call i whose rule matches.
MatchedTriples(i) ==
  {t \in Range(results[i].scanned)
          \X (UNION {KeysRead(results[i].fn, S) : S \in Range(results[i].scanned)})
          \X (DOMAIN opts.matchers) :
     /\ t[2] \in KeysRead(results[i].fn, t[1])
     /\ GetV(heap, t[1], t[2]).ok
     /\ KeyMatches(opts.matchers[t[3]], t[2], GetV(heap, t[1], t[2]).v, t[1])}

\* What the transform of rule m hands back for a match: the key without a
\* transform, undefined when the transform fails.
TransformedOf(m, k, v) ==
  IF m.tf = "none" THEN Str(k)
  ELSE IF TransformCall(m, k, v).ok THEN TransformCall(m, k, v).v ELSE Undef

\* C20: with an observer, a call that returns has told it of every matched
\* (scanned object, key, rule) triple exactly once and of nothing else, each
\* time with the key, the value, the owner, the rule and the transform's
\* output, after that output was merged, whether or not the observer fails.
C20_ObserverToldOnce ==
  \A i \in DOMAIN results :
    (opts.onMatch \in {"record", "throw"} /\ ~results[i].threw) =>
      LET N == results[i].notes IN
      /\ {<<N[n].source, N[n].key, N[n].rule>> : n \in DOMAIN N} = MatchedTriples(i)
      /\ Len(N) = Cardinality(MatchedTriples(i))
      /\ \A n \in DOMAIN N :
           /\ N[n].value = GetV(heap, N[n].source, N[n].key).v
           /\ N[n].out = TransformedOf(opts.matchers[N[n].rule], N[n].key, N[n].value)
           /\ Kept(N[n].out) => ToStr(heap, N[n].out).s \in Range(N[n].res)

\* An observer that fails was told of a match whose output was discarded and
\* of one whose transform failed, on a source with keys no rule matches.
C20_Witness ==
  \E i \in DOMAIN results :
    /\ opts.onMatch = "throw"
    /\ ~results[i].threw
    /\ \E a, b \in DOMAIN results[i].notes :
         /\ results[i].notes[a].out = Str(<<>>)
         /\ results[i].notes[b].out = Undef
         /\ opts.matchers[results[i].notes[b].rule].tf = "throw"
    /\ \E S \in Range(results[i].scanned) : \E k \in KeysRead(results[i].fn, S) :
         \A n \in DOMAIN results[i].notes : results[i].notes[n].key # k


\* The ancestors of value v on its prototype chain that come before the first
\* of Object.prototype and Function.prototype.
RECURSIVE AncestorsBefore(_)
AncestorsBefore(v) ==
  LET p == PrototypeOfV(heap, v) IN
  IF p = Null \/ p \in {Ref("ObjectPrototype"), Ref("FunctionPrototype")} THEN {}
  ELSE {p} \cup AncestorsBefore(p)

\* The values of v[k] for the names k in K that v has and whose read succeeds.
MembersAt(v, K) ==
  {GetV(heap, v, k).v : k \in {x \in K : GetV(heap, v, x).ok}}

\* The names the alias lookup tries: root.name for a callable root, and the
\* name of root.prototype and of root.constructor; strings that are not empty.
AliasNames(root) ==
  {n.s : n \in {x \in (IF TypeOf(heap, root) = "function"
                        THEN MembersAt(root, {<<"name">>}) ELSE {})
                       \cup UNION {MembersAt(m, {<<"name">>}) :
                                     m \in {y \in MembersAt(root, {<<"prototype">>,
                                                                  <<"constructor">>}) :
                                              Truthy(y)}} :
                  x.t = "string" /\ x.s # <<>>}}

\* The closure as the contract words it, for root and the names in expand.
ClosureOf(root, expand) ==
  LET g == AliasGlobal(opts.host)
      all == {root}
             \cup MembersAt(root, {c \in Range(expand) : HasPropertyV(heap, root, c)})
             \cup MembersAt(root, {<<"constructor">>, <<"prototype">>})
             \cup AncestorsBefore(root)
             \cup (IF g = Null THEN {}
                   ELSE MembersAt(g, {n \in AliasNames(root) :
                                        HasPropertyV(heap, g, n)})) IN
  {v \in all : Truthy(v) /\ TypeOf(heap, v) \in {"object", "function"}}

\* C21: for a truthy root, each collectMembersWide scans exactly root, the expanded
\* children present on it, its constructor, its prototype property, its
\* ancestors before Object.prototype / Function.prototype and the global
\* bindings of its names, the objects and functions among them, and nothing
\* else.
C21_ClosureExact ==
  \A i \in DOMAIN results :
    (/\ results[i].fn \in {"wide", "legacyWide"}
     /\ Truthy(opts.root)
     /\ ~results[i].threw) =>
      Range(results[i].scanned) = ClosureOf(opts.root, opts.expandChildren)


\* The own property names of closure member S, enumerable or not, as the
\* object holds them.
OwnNames(S) ==
  IF S.t = "object" THEN {heap[S.o].props[p].key : p \in DOMAIN heap[S.o].props}
  ELSE {<<"length">>, <<"name">>, <<"prototype">>}

\* The rules whose evaluation is a call of the caller's predicate.
PredicateRules ==
  {j \in DOMAIN opts.matchers :
     /\ opts.matchers[j].shape = "rule"
     /\ opts.matchers[j].type = "custom"
     /\ opts.matchers[j].pt = "function"}

\* The (member, name, rule) triples a pass over the members in M evaluates.
TriplesOver(M) ==
  UNION {{<<S, k, j>> : k \in {x \in OwnNames(S) : GetV(heap, S, x).ok},
                        j \in PredicateRules} : S \in M}

\* C22: a returning collectMembersWide calls each predicate rule exactly once
\* for every closure member S and every own property name of S, enumerable
\* or not, whose read succeeds, and for nothing else.
C22_EachNameOncePerMember ==
  \A i \in DOMAIN results :
    (results[i].fn \in {"wide", "legacyWide"} /\ ~results[i].threw) =>
      LET E == results[i].evals IN
      /\ {<<E[e].source, E[e].key, E[e].rule>> : e \in DOMAIN E}
           = TriplesOver(Range(results[i].scanned))
      /\ Len(E) = Cardinality(TriplesOver(Range(results[i].scanned)))

\* A pass called a predicate on a name two closure members own, once for each
\* member, the name being enumerable on neither, and on an enumerable name.
C22_Witness ==
  \E i \in DOMAIN results :
    /\ results[i].fn = "wide"
    /\ ~results[i].threw
    /\ \E a, b \in DOMAIN results[i].evals :
         /\ results[i].evals[a].key = results[i].evals[b].key
         /\ results[i].evals[a].source # results[i].evals[b].source
         /\ results[i].evals[a].key \notin Range(SourceKeys(heap, results[i].evals[a].source))
    /\ \E a \in DOMAIN results[i].evals :
         results[i].evals[a].key \in Range(SourceKeys(heap, results[i].evals[a].source))


\* The graph and wrappers after n observer-based runs at the defaults
\* (wrapTarget 'root', awaitPromises false, no expandChildren) on the graph the
\* transform-based runs started from, with the same rules and logger.
RECURSIVE ObserverAfter(_)
ObserverAfter(n) ==
  IF n = 0 THEN NewPass(runs[1].before, <<>>, lastIndex)
  ELSE AddLoggingToFunctions(ObserverAfter(n - 1).h, ObserverAfter(n - 1).ws,
                             lastIndex, Config(opts, n), opts)

\* What a wrapper replaced and forwards to.
InstallOf(w) == [key |-> w.key, target |-> w.target, orig |-> w.orig]

\* A value as a caller can compare it across two executions.
Shape(v) == IF v.t = "promise" THEN PromiseVal(0) ELSE v

\* The observations of client call c in trace tr: the fields both variants give.
ObsFields(tr, c) ==
  LET es == SelectSeq(tr, LAMBDA e : e.kind = "obs" /\ e.call = c) IN
  [k \in DOMAIN es |->
     [label |-> es[k].label, key |-> es[k].key, args |-> es[k].args,
      result |-> Shape(es[k].result), error |-> es[k].error,
      thisArg |-> es[k].thisArg]]

\* Client call c made on the graph g of the observer-based variant.
ObserverCall(g, c) ==
  Invoke(g.h, g.ws,
         [trace |-> <<>>, acts |-> <<>>, promises |-> <<>>, microtasks |-> <<>>],
         Get(g.h, "root", calls[c].key).v, Ref("root"), calls[c].args, c, 0)

\* C23: the transform-based runs leave the graph the observer-based runs at
\* the defaults leave from the same start (the same properties replaced, each
\* wrapper forwarding to the same original), and every later call has the
\* same return / throw outcome and the same observation fields label, key,
\* args, result, error and thisArg.
C23_VariantsAgree ==
  (opts.fn = "transform" /\ runs # <<>>) =>
    /\ heap = ObserverAfter(Len(runs)).h
    /\ Len(wrappers) = Len(ObserverAfter(Len(runs)).ws)
    /\ \A n \in DOMAIN wrappers :
         InstallOf(wrappers[n]) = InstallOf(ObserverAfter(Len(runs)).ws[n])
    /\ \A c \in DOMAIN calls :
         /\ calls[c].outcome = ObserverCall(ObserverAfter(Len(runs)), c).outcome
         /\ Shape(calls[c].val) = Shape(ObserverCall(ObserverAfter(Len(runs)), c).val)
         /\ ObsFields(trace, c) =
              ObsFields(ObserverCall(ObserverAfter(Len(runs)), c).cs.trace, c)


\* C24: every installed wrapper forwards to the function value of the match
\* it was installed for: the value read at owner[key] during the traversal,
\* which is a function, under every wrapTarget.
C24_ForwardsToMatched ==
  \A n \in DOMAIN wrappers :
    wrappers[n].variant = "observer" =>
      /\ TypeOf(heap, wrappers[n].orig) = "function"
      /\ \E k \in DOMAIN runs[wrappers[n].run].notes :
           /\ runs[wrappers[n].run].notes[k].key = wrappers[n].key
           /\ runs[wrappers[n].run].notes[k].source = Ref(wrappers[n].source)
           /\ runs[wrappers[n].run].notes[k].value = wrappers[n].orig


\* Whether run i left object o with an own property k it did not have, or
\* with another descriptor or value under k.
Changed(i, o, k) ==
  LET a == After(i)[o].props
      b == runs[i].before[o].props IN
  /\ PropIndex(a, k) # 0
  /\ \/ PropIndex(b, k) = 0
     \/ a[PropIndex(a, k)] # b[PropIndex(b, k)]

OwnKeysAfter(i, o) == {After(i)[o].props[p].key : p \in DOMAIN After(i)[o].props}

\* C25: a run changes an own property o[k] only where o[k] resolved to a
\* function before the run: no non-function value is overwritten and no
\* property is created where the name resolved to undefined.
C25_OnlyFunctionsReplaced ==
  \A i \in DOMAIN runs :
    \A o \in DOMAIN heap :
      \A k \in OwnKeysAfter(i, o) :
        Changed(i, o, k) =>
          /\ Get(runs[i].before, o, k).ok
          /\ TypeOf(runs[i].before, Get(runs[i].before, o, k).v) = "function"


\* The closure of the instrumented object as run i computed it.
ClosureOfRun(i) ==
  Range(SourceClosure(runs[i].before, opts.host, Ref(opts.obj), opts.expandChildren))

\* C26: every object a run modifies is a member of the closure of the
\* instrumented object; Object.prototype and Function.prototype are modified
\* only when they are members.
C26_ModifiedInClosure ==
  \A i \in DOMAIN runs :
    \A o \in DOMAIN heap :
      After(i)[o] # runs[i].before[o] => Ref(o) \in ClosureOfRun(i)


\* collectMembersWide called where call i was made, with the options of call
\* i (its source as root, the same rules and seeds).
WideOf(i) ==
  CollectMembersWide(CollectConfig(opts), NewPass(heap, wrappers, results[i].before),
                     opts)

\* C27: every string a returning collectMembers call gives is also given by
\* collectMembersWide for the same value as root, the same rules and seeds.
C27_WideWidens ==
  \A i \in DOMAIN results :
    (results[i].fn = "collect" /\ ~results[i].threw) =>
      /\ ~WideOf(i).threw
      /\ Range(results[i].out) \subseteq Range(WideOf(i).res)


\* C28: getMatcherPack(name) returns for every string name: the rule list of
\* the table for a preset name, and an empty list for every other name, the
\* names every object inherits included.
C28_ReturnsForEveryName ==
  \A g \in DOMAIN packs.got :
    /\ ~packs.got[g].threw
    /\ packs.got[g].list = IF packs.got[g].name \in DOMAIN PackTable
                           THEN PackTable[packs.got[g].name]
                           ELSE <<>>

====
